---- MODULE Spec2Model ----
(***************************************************************************)
(* G-Tracker background worker (src/background.js): scan-range             *)
(* reconciliation, the package and subscription scan orchestrators and the *)
(* per-category scanning state kept by handleMessage.                      *)
(*                                                                         *)
(* Calendar dates are day numbers (0 = the first day of the modelled       *)
(* calendar); instants are milliseconds, DayMs per day, as JavaScript's    *)
(* Date.getTime() gives them for a "YYYY-MM-DD" string (UTC midnight).     *)
(***************************************************************************)
EXTENDS Integers, Sequences, FiniteSets, TLC

\* ------------------------------------------------------------------ bounds
MaxDay == 2
MaxHist == 2
MaxSearches == 3
MaxLlmOps == 4
MaxPkgScans == 3
MaxRejected == 1
MaxSubScans == 2

\* ------------------------------------------------- JavaScript date helpers
DayMs == 86400000
Null == -1

Days == 0..MaxDay

\* new Date("YYYY-MM-DD").getTime()
getTime(d) == d * DayMs

\* new Date(ms).toISOString().split('T')[0]
toISODate(ms) == ms \div DayMs

Max(a, b) == IF a >= b THEN a ELSE b

\* --------------------------------------------------------------- calendar
\* Day 0 is 2024-01-01; months are numbered 0..11 as Date.getMonth() does.
BaseYear == 2024
Years == 2023..2026
Today == 15
NoonHour == 12

IsLeap(y) == (y % 4 = 0 /\ y % 100 # 0) \/ y % 400 = 0

DaysInMonth(y, m) ==
    IF m = 1 THEN (IF IsLeap(y) THEN 29 ELSE 28)
    ELSE IF m \in {3, 5, 8, 10} THEN 30 ELSE 31

DaysInYear(y) == IF IsLeap(y) THEN 366 ELSE 365

RECURSIVE DaysToYear(_)
DaysToYear(y) ==
    IF y = BaseYear THEN 0
    ELSE IF y > BaseYear THEN DaysToYear(y - 1) + DaysInYear(y - 1)
    ELSE DaysToYear(y + 1) - DaysInYear(y)

RECURSIVE DaysToMonth(_, _)
DaysToMonth(y, m) == IF m = 0 THEN 0 ELSE DaysToMonth(y, m - 1) + DaysInMonth(y, m - 1)

\* MakeDay(year, month, date): the month is normalised into the year, the
\* date is added as an offset (Feb 31 is Mar 2 or Mar 3)
MakeDay(y, m, d) == DaysToYear(y + (m \div 12)) + DaysToMonth(y + (m \div 12), m % 12) + (d - 1)

\* the year, month and date of a day number
YearOf(n) == CHOOSE y \in Years : DaysToYear(y) <= n /\ n < DaysToYear(y) + DaysInYear(y)
MonthOf(n) ==
    CHOOSE m \in 0..11 : /\ MakeDay(YearOf(n), m, 1) <= n
                         /\ n < MakeDay(YearOf(n), m, 1) + DaysInMonth(YearOf(n), m)
DateOf(n) == n - MakeDay(YearOf(n), MonthOf(n), 1) + 1

\* Instants of the subscription code are hours since 2024-01-01T00:00Z.
\* new Date("YYYY-MM-DD"): UTC midnight of that day
parseDate(d) == d * 24

\* date.toISOString().split('T')[0]: the UTC day of an instant
isoDate(t) == t \div 24

\* date.setMonth(date.getMonth() + 1): the month of the LOCAL date is
\* advanced, the local time of day is kept
setNextMonth(t, tz) ==
    LET localT == t + tz
        ld     == localT \div 24
    IN  MakeDay(YearOf(ld), MonthOf(ld) + 1, DateOf(ld)) * 24 + (localT % 24) - tz

\* new Date(billingDate); setMonth(getMonth() + 1); toISOString().split('T')[0]
reminderDateOf(billingDate, tz) == isoDate(setNextMonth(parseDate(billingDate), tz))

\* new Date(year, month, date).toISOString().split('T')[0]: local midnight
localMidnightIso(y, m, d, tz) == isoDate(MakeDay(y, m, d) * 24 - tz)

\* ------------------------------------------------------------- variables
VARIABLES
    scanHistory,      \* the scan_history object store, in insertion order
    options,          \* {startDate, endDate} of the last reconciliation request
    optimizedRanges,  \* what getOptimizedScanRanges returned for it
    packages,         \* the packages object store, in insertion order
    packageScanningState,       \* module-level scanning state, package scans
    subscriptionScanningState,  \* module-level scanning state, subscription scans
    stored,           \* chrome.storage.local: the mirror saveScanningStates writes
    pending,          \* chrome.storage.local operations issued and not yet applied
    calls,            \* continuations that await a storage operation
    broadcasts,       \* per scan type, the last message sent to the observers
    loadPc,           \* loadScanningStates: its get outstanding, or settled
    cleanupPc,        \* cleanupOnStartup: where it stands
    pkgRuns,          \* the processPackageEmails invocations, oldest first
    pkgRejected,      \* PROCESS_PACKAGE_EMAILS requests answered 'already in progress'
    dedupSeen,        \* email ids for which a filtering pass got emailExists = true
    subscriptions,    \* the subscriptions object store, in insertion order
    calendarEventRecords,  \* the subscription_calendar_events object store
    calendarEvents,   \* the events created in the user's Google calendar
    subScanHistory,   \* the subscription_scan_history object store
    subRuns,          \* the scanCurrentMonthSubscriptions invocations, oldest first
    subRejected,      \* SCAN_SUBSCRIPTION_EMAILS requests answered 'already in progress'
    dbFaulty,         \* whether IndexedDB requests can fail in this behaviour
    today,            \* the UTC calendar day of "now"
    tzOffset,         \* the worker's time zone: local time = UTC + tzOffset hours
    storageLag,       \* whether storage operations settle later than they are issued
    llmAvailable,     \* whether LanguageModel.availability() answers 'available'
    traceItems,       \* whether the runs keep the ids they fetched and those that failed
    pickup,           \* the last MARK_PACKAGE_PICKED_UP request and its response
    buildSearchQuery, \* the query builder gmailScanner.buildSearchQuery now refers to
    searchCalls,      \* the mail searches issued, each with its position and its query
    currentSession,   \* llmExtractor.currentSession: 0 for null, else the session's number
    created,          \* how many sessions LanguageModel.create has returned
    destroyed,        \* the sessions whose destroy() has settled
    llmOps,           \* the callLLM calls and DESTROY_LLM_SESSION requests, with their position
    currentProgress,  \* chrome.storage.local: the current-progress entry of each scan type
    removalTimers,    \* the setTimeout callbacks that will remove a current-progress key
    progressRuns      \* the scans whose progress reports are followed, oldest first

rangeVars == <<scanHistory, options, optimizedRanges>>
pkgOwn == <<packages, pkgRuns, pkgRejected, dedupSeen>>
mirror == <<stored, pending, calls, broadcasts>>
startVars == <<loadPc, cleanupPc>>
pkgVars == <<packages, packageScanningState, mirror, pkgRuns, pkgRejected, dedupSeen>>
subStores == <<subscriptions, calendarEventRecords, calendarEvents, subScanHistory,
               subRejected>>
subVars == <<subscriptions, calendarEventRecords, calendarEvents, subScanHistory,
             subRuns, subRejected, subscriptionScanningState>>
envVars == <<dbFaulty, today, tzOffset, storageLag, llmAvailable, traceItems>>
callerVars == <<pickup>>
scannerVars == <<buildSearchQuery, searchCalls>>
llmVars == <<currentSession, created, destroyed, llmOps>>
progressVars == <<currentProgress, removalTimers, progressRuns>>
vars == <<scanHistory, options, optimizedRanges, packages, packageScanningState,
          subscriptionScanningState, stored, pkgRuns, pkgRejected, dedupSeen,
          subscriptions, calendarEventRecords, calendarEvents, subScanHistory,
          subRuns, subRejected, dbFaulty, today, tzOffset,
          pending, calls, broadcasts, loadPc, cleanupPc, storageLag, llmAvailable, traceItems,
          pickup, buildSearchQuery, searchCalls, currentSession, created, destroyed,
          llmOps, currentProgress, removalTimers, progressRuns>>

\* -------------------------------------------------- Array.prototype.sort
\* A stable sort of a sequence of records on the integer field f;
\* dir = 1 sorts ascending (a - b), dir = -1 descending (b - a).
RECURSIVE InsertSorted(_, _, _, _)
InsertSorted(e, s, f, dir) ==
    IF s = <<>> THEN <<e>>
    ELSE IF dir * s[Len(s)][f] <= dir * e[f]
         THEN Append(s, e)
         ELSE Append(InsertSorted(e, SubSeq(s, 1, Len(s) - 1), f, dir), s[Len(s)])

RECURSIVE SortBy(_, _, _)
SortBy(s, f, dir) ==
    IF s = <<>> THEN <<>>
    ELSE InsertSorted(s[Len(s)], SortBy(SubSeq(s, 1, Len(s) - 1), f, dir), f, dir)

RECURSIVE SelectSeq2(_, _, _, _)
SelectSeq2(s, lo, hi, i) ==
    IF i > Len(s) THEN <<>>
    ELSE IF ~(getTime(s[i].endDateRequested) < lo \/ getTime(s[i].startDateRequested) > hi)
         THEN <<s[i]>> \o SelectSeq2(s, lo, hi, i + 1)
         ELSE SelectSeq2(s, lo, hi, i + 1)

\* ------------------------------------------------------- PackageDatabase
\* saveScanHistory: the record store.add() appends; scanDate is the instant
\* of the save, which grows with every save.
scanRecord(store, scanData) ==
    [scanDate               |-> Len(store) + 1,
     emailsScanned          |-> scanData.emailsScanned,
     earliestEmailTimestamp |-> scanData.earliestEmailTimestamp,
     latestEmailTimestamp   |-> scanData.latestEmailTimestamp,
     startDateRequested     |-> scanData.startDateRequested,
     endDateRequested       |-> scanData.endDateRequested,
     packagesFound          |-> scanData.packagesFound]

\* (variant: the record is put under the key of the newest entry)
saveScanHistory_overwrite(store, scanData) ==
    IF Len(store) = 0 THEN Append(store, scanRecord(store, scanData))
    ELSE [store EXCEPT ![Len(store)] = scanRecord(SubSeq(store, 1, Len(store) - 1), scanData)]

saveScanHistory(store, scanData) == Append(store, scanRecord(store, scanData))

\* getScanHistory: store.getAll() sorted by scanDate, newest first
getScanHistory(store) == SortBy(store, "scanDate", -1)

\* (variant: the filter forgets the test scanStart > requestedEnd)
RECURSIVE SelectNotBefore(_, _, _)
SelectNotBefore(s, lo, i) ==
    IF i > Len(s) THEN <<>>
    ELSE IF ~(getTime(s[i].endDateRequested) < lo)
         THEN <<s[i]>> \o SelectNotBefore(s, lo, i + 1)
         ELSE SelectNotBefore(s, lo, i + 1)

overlappingScans_noUpperTest(history, requestedStart, requestedEnd) ==
    SelectNotBefore(history, requestedStart, 1)

\* (variant: the filter tests the observed email timestamps, not the
\* requested bounds)
RECURSIVE SelectByTimestamps(_, _, _, _)
SelectByTimestamps(s, lo, hi, i) ==
    IF i > Len(s) THEN <<>>
    ELSE IF ~(getTime(s[i].latestEmailTimestamp) < lo
              \/ getTime(s[i].earliestEmailTimestamp) > hi)
         THEN <<s[i]>> \o SelectByTimestamps(s, lo, hi, i + 1)
         ELSE SelectByTimestamps(s, lo, hi, i + 1)

overlappingScans_byTimestamps(history, requestedStart, requestedEnd) ==
    SelectByTimestamps(history, requestedStart, requestedEnd, 1)

\* the filter of getOptimizedScanRanges: scans whose requested bounds overlap
overlappingScans(history, requestedStart, requestedEnd) ==
    SelectSeq2(history, requestedStart, requestedEnd, 1)

\* (variant: the cursor is set to scanEnd + 1 without Math.max)
RECURSIVE sweep_noMax(_, _, _, _)
sweep_noMax(scans, k, rangesToScan, currentStart) ==
    IF k > Len(scans) THEN <<rangesToScan, currentStart>>
    ELSE LET scanStart == getTime(scans[k].startDateRequested)
             scanEnd   == getTime(scans[k].endDateRequested)
             pushed    == IF currentStart < scanStart
                          THEN Append(rangesToScan,
                                      [startDate |-> toISODate(currentStart),
                                       endDate   |-> toISODate(scanStart - 1),
                                       reason    |-> "Gap before scanned range"])
                          ELSE rangesToScan
         IN  sweep_noMax(scans, k + 1, pushed, scanEnd + 1)

\* the sweep of getOptimizedScanRanges over the sorted overlapping scans:
\* returns <<rangesToScan, currentStart>>
RECURSIVE sweep(_, _, _, _)
sweep(scans, k, rangesToScan, currentStart) ==
    IF k > Len(scans) THEN <<rangesToScan, currentStart>>
    ELSE LET scanStart == getTime(scans[k].startDateRequested)
             scanEnd   == getTime(scans[k].endDateRequested)
             pushed    == IF currentStart < scanStart
                          THEN Append(rangesToScan,
                                      [startDate |-> toISODate(currentStart),
                                       endDate   |-> toISODate(scanStart - 1),
                                       reason    |-> "Gap before scanned range"])
                          ELSE rangesToScan
         IN  sweep(scans, k + 1, pushed, Max(currentStart, scanEnd + 1))

\* (variant: the range after the last overlapping scan is not pushed)
getOptimizedScanRanges_noTrailingGap(store, startDate, endDate) ==
    LET history        == getScanHistory(store)
        requestedStart == getTime(startDate)
        requestedEnd   == getTime(endDate)
        overlapping    == overlappingScans(history, requestedStart, requestedEnd)
    IN  IF Len(overlapping) = 0
        THEN <<[startDate |-> startDate, endDate |-> endDate,
                reason |-> "No previous scans found"]>>
        ELSE LET sorted       == SortBy(overlapping, "startDateRequested", 1)
                 swept        == sweep(sorted, 1, <<>>, requestedStart)
                 rangesToScan == swept[1]
             IN  IF Len(rangesToScan) > 0 THEN rangesToScan
                 ELSE <<[startDate |-> Null, endDate |-> Null,
                         reason |-> "Range already fully scanned"]>>

\* getOptimizedScanRanges: the ranges of [startDate, endDate] left to scan
getOptimizedScanRanges(store, startDate, endDate) ==
    LET history        == getScanHistory(store)
        requestedStart == getTime(startDate)
        requestedEnd   == getTime(endDate)
        overlapping    == overlappingScans(history, requestedStart, requestedEnd)
    IN  IF Len(overlapping) = 0
        THEN <<[startDate |-> startDate, endDate |-> endDate,
                reason |-> "No previous scans found"]>>
        ELSE LET sorted       == SortBy(overlapping, "startDateRequested", 1)
                 swept        == sweep(sorted, 1, <<>>, requestedStart)
                 currentStart == swept[2]
                 rangesToScan ==
                     IF currentStart <= requestedEnd
                     THEN Append(swept[1],
                                 [startDate |-> toISODate(currentStart),
                                  endDate   |-> endDate,
                                  reason    |-> "Gap after scanned range"])
                     ELSE swept[1]
             IN  IF Len(rangesToScan) > 0 THEN rangesToScan
                 ELSE <<[startDate |-> Null, endDate |-> Null,
                         reason |-> "Range already fully scanned"]>>

\* getScanHistory when its getAll request may fail: onerror resolves []
scanHistoryRead(store, readOk) == IF readOk THEN store ELSE <<>>

\* (variant: the catch answers with no range at all)
tryGetOptimizedScanRanges_noFallback(store, startDate, endDate, readOk, threw) ==
    IF threw
    THEN <<>>
    ELSE getOptimizedScanRanges(scanHistoryRead(store, readOk), startDate, endDate)

\* getOptimizedScanRanges with its try / catch: an exception in the body
\* (threw) is answered with the whole requested range
tryGetOptimizedScanRanges(store, startDate, endDate, readOk, threw) ==
    IF threw
    THEN <<[startDate |-> startDate, endDate |-> endDate,
            reason |-> "Error checking scan history, scanning full range"]>>
    ELSE getOptimizedScanRanges(scanHistoryRead(store, readOk), startDate, endDate)

\* ---------------------------------------------- reconciliation on its own
NoOptions == [startDate |-> Null, endDate |-> Null]

cleanState == [isScanning |-> FALSE, progress |-> 0, step |-> "", options |-> NoOptions]

\* nothing has been sent yet
NoBroadcast == [type |-> "none", isScanning |-> FALSE, step |-> "", persisted |-> TRUE]

\* chrome.storage.local without the two scanning state keys
NothingStored == [present |-> FALSE, subscriptionScanningState |-> cleanState,
                  packageScanningState |-> cleanState]

\* no MARK_PACKAGE_PICKED_UP request has been handled
NoPickup == [packageId |-> Null, success |-> FALSE, error |-> ""]

\* a current-progress key that chrome.storage.local does not hold
NoProgress == [present |-> FALSE, run |-> 0, step |-> ""]

\* the object stores and the module state of a fresh profile
InitStores ==
    /\ scanHistory = <<>>
    /\ options = NoOptions
    /\ optimizedRanges = <<>>
    /\ packages = <<>>
    /\ packageScanningState = cleanState
    /\ subscriptionScanningState = cleanState
    /\ pending = <<>>
    /\ calls = <<>>
    /\ broadcasts = [package |-> NoBroadcast, subscription |-> NoBroadcast]
    /\ pkgRuns = <<>>
    /\ pkgRejected = 0
    /\ dedupSeen = {}
    /\ subscriptions = <<>>
    /\ calendarEventRecords = <<>>
    /\ calendarEvents = <<>>
    /\ subScanHistory = <<>>
    /\ subRuns = <<>>
    /\ subRejected = 0
    /\ today = Today
    /\ pickup = NoPickup
    /\ buildSearchQuery = "plain"
    /\ searchCalls = <<>>
    /\ currentSession = 0
    /\ created = 0
    /\ destroyed = {}
    /\ llmOps = <<>>
    /\ currentProgress = [package |-> NoProgress, subscription |-> NoProgress]
    /\ removalTimers = {}
    /\ progressRuns = <<>>

\* a fresh profile once the worker has started: nothing is stored,
\* loadScanningStates and cleanupOnStartup are over
InitCommon ==
    /\ InitStores
    /\ stored = NothingStored
    /\ loadPc = [pc |-> "settled", result |-> NothingStored, fresh |-> FALSE]
    /\ cleanupPc = "done"

InitRanges == InitCommon /\ dbFaulty = FALSE /\ storageLag = FALSE /\ tzOffset = 0 /\ llmAvailable = TRUE /\ traceItems = FALSE

\* handleMessage SAVE_SCAN_HISTORY: packageDB.saveScanHistory(message.scanData)
HandleSaveScanHistory(scanData) ==
    /\ Len(scanHistory) < MaxHist
    /\ scanHistory' = saveScanHistory(scanHistory, scanData)
    /\ UNCHANGED <<options, optimizedRanges, pkgVars, subVars, envVars, progressVars, callerVars, scannerVars, llmVars, startVars>>

\* processPackageEmails step 1: getOptimizedScanRanges(startDate, endDate)
CallGetOptimizedScanRanges(startDate, endDate) ==
    /\ options' = [startDate |-> startDate, endDate |-> endDate]
    /\ optimizedRanges' = getOptimizedScanRanges(scanHistory, startDate, endDate)
    /\ UNCHANGED <<scanHistory, pkgVars, subVars, envVars, progressVars, callerVars, scannerVars, llmVars, startVars>>

\* scan data of a past scan over the window [s, e]
ScanDataFor(s, e) ==
    [emailsScanned |-> 1, earliestEmailTimestamp |-> s, latestEmailTimestamp |-> e,
     startDateRequested |-> s, endDateRequested |-> e, packagesFound |-> 0]

NextRanges ==
    \/ \E s \in Days, e \in Days : s <= e /\ HandleSaveScanHistory(ScanDataFor(s, e))
    \/ \E s \in Days, e \in Days : CallGetOptimizedScanRanges(s, e)

SpecRanges == InitRanges /\ [][NextRanges]_vars

\* getOptimizedScanRanges(startDate, endDate) when the history cannot be read
\* or the body throws
CallGetOptimizedScanRangesFailing(startDate, endDate, readOk, threw) ==
    /\ ~readOk \/ threw
    /\ options' = [startDate |-> startDate, endDate |-> endDate]
    /\ optimizedRanges' = tryGetOptimizedScanRanges(scanHistory, startDate, endDate,
                                                    readOk, threw)
    /\ UNCHANGED <<scanHistory, pkgVars, subVars, envVars, progressVars, callerVars, scannerVars, llmVars, startVars>>

NextDegraded ==
    \/ \E s \in Days, e \in Days : s <= e /\ HandleSaveScanHistory(ScanDataFor(s, e))
    \/ \E s \in Days, e \in Days, readOk \in BOOLEAN, threw \in BOOLEAN :
          CallGetOptimizedScanRangesFailing(s, e, readOk, threw)

InitDegraded == InitCommon /\ dbFaulty = TRUE /\ storageLag = FALSE /\ tzOffset = 0 /\ llmAvailable = TRUE /\ traceItems = FALSE

SpecDegraded == InitDegraded /\ [][NextDegraded]_vars

\* ------------------------------------------------------------ mail source
\* The mailbox the Gmail capability searches: message ids, newest first, and
\* the day each message was sent.
MailIds == <<3, 2, 1>>
MailDay == <<0, 2, 3>>

\* GmailScanner.searchEmails with the query built by searchPackageEmails:
\* "after:" startDate (that day included) "before:" endDate (that day excluded)
searchPackageEmails(startDate, endDate) ==
    SelectSeq(MailIds, LAMBDA m : startDate <= MailDay[m] /\ MailDay[m] < endDate)

\* ---------------------------------------------------------- package store
\* (variant: only the records not yet picked up are looked at)
emailExists_unpicked(store, emailId) ==
    \E k \in 1..Len(store) : ~store[k].pickedUp /\ store[k].emailId = emailId

\* getAll on the packages store, then some(pkg => pkg.emailId === emailId)
emailExists(store, emailId) == \E k \in 1..Len(store) : store[k].emailId = emailId

savePackageToDB(store, packageData) ==
    Append(store, [id           |-> Len(store) + 1,
                   emailId      |-> packageData.emailId,
                   deliveryTime |-> packageData.deliveryTime,
                   pickedUp     |-> FALSE])

\* (variant: the filtering loop pushes every id, also those that exist)
newEmailIdsOf_noCheck(allEmailIds, store, unread) == allEmailIds

\* the filtering loop of processPackageEmails: the ids for which emailExists
\* answers false (it also answers false when its request fails)
newEmailIdsOf(allEmailIds, store, unread) ==
    SelectSeq(allEmailIds, LAMBDA m : ~(m \notin unread /\ emailExists(store, m)))

\* outcomes of one IndexedDB request: TRUE = onsuccess, FALSE = onerror
DbOutcomes == IF dbFaulty THEN {TRUE, FALSE} ELSE {TRUE}

\* what extractDeliveryInfo gives: a delivery email, another email, or an
\* exception (callLLM or JSON.parse threw); getSession throws whenever
\* LanguageModel.availability() is not 'available'
LlmOutcomes == IF llmAvailable THEN {"delivery", "other", "error"} ELSE {"error"}

\* whether code working on what IndexedDB answered can throw
DbThrows == IF dbFaulty THEN {TRUE, FALSE} ELSE {FALSE}

\* ----------------------------------------------------- progress arithmetic
\* Math.round(num / den) for num >= 0, den > 0
Round(num, den) == (2 * num + den) \div (2 * den)

\* Math.round(baseProgress + add), baseProgress = (rangeIndex / n) * 85
rangeProgress(rangeIndex, n, add) == Round(rangeIndex * 85 + add * n, n)

\* Math.round(baseProgress + 15 + ((i + 1) / totalEmails) * 65)
emailProgress(rangeIndex, n, i, totalEmails) ==
    Round(rangeIndex * 85 * totalEmails + 15 * n * totalEmails + (i + 1) * 65 * n,
          n * totalEmails)

\* --------------------------------------------- scanning state and its mirror
\* saveScanningStates(): chrome.storage.local.set of both states, issued for
\* a change of the state of scan type by
saveScanningStates(sub, pkg, by) ==
    IF storageLag
    THEN /\ pending' = Append(pending, [op |-> "states", by |-> by,
                                        subscriptionScanningState |-> sub,
                                        packageScanningState |-> pkg])
         /\ UNCHANGED stored
    ELSE /\ stored' = [present |-> TRUE, subscriptionScanningState |-> sub,
                       packageScanningState |-> pkg]
         /\ UNCHANGED pending

\* whether the state of scanType now in memory has been written: no set
\* issued for a change of it is still in the queue
Written(queue, scanType) ==
    \A k \in 1..Len(queue) : ~(queue[k].op = "states" /\ queue[k].by = scanType)

\* a message to the popup and the tabs, and whether the state it carries had
\* been written when it was sent
sent(type, isScanning, step, scanType, queue) ==
    [type |-> type, isScanning |-> isScanning, step |-> step,
     persisted |-> Written(queue, scanType)]

\* a continuation that awaits the storage operation now last in the queue
awaiting(kind, scanType, phase, r, queue) ==
    [kind |-> kind, scanType |-> scanType, phase |-> phase, r |-> r, wait |-> Len(queue)]

\* updateProgressState after Object.assign and the call of saveScanningStates:
\* it awaits the set; with a storage that settles at once it goes on to send
\* PROGRESS_UPDATE and SCANNING_STATE_CHANGED built from the state
updateBroadcasts(scanType, state) ==
    IF storageLag
    THEN /\ calls' = Append(calls, awaiting("update", scanType, "saving", 0, pending'))
         /\ UNCHANGED broadcasts
    ELSE /\ broadcasts' = [broadcasts EXCEPT ![scanType] =
                              sent("SCANNING_STATE_CHANGED", state.isScanning,
                                   state.step, scanType, pending')]
         /\ UNCHANGED calls

\* the handlers after their await saveScanningStates(): the initial message
\* is sent and packageDB.initDB() is called
startBroadcasts(scanType, type, step, r) ==
    IF storageLag
    THEN /\ calls' = Append(calls, awaiting("start", scanType, "saving", r, pending'))
         /\ UNCHANGED broadcasts
    ELSE /\ broadcasts' = [broadcasts EXCEPT ![scanType] =
                              sent(type, TRUE, step, scanType, pending')]
         /\ UNCHANGED calls

firstPc == IF storageLag THEN "starting" ELSE "initDB"
\* updateProgressState('package', progressData): Object.assign on the state,
\* then saveScanningStates
PkgCallback(step, progress) ==
    /\ packageScanningState' =
           [packageScanningState EXCEPT !.step = step, !.progress = progress]
    /\ saveScanningStates(subscriptionScanningState, packageScanningState', "package")
    /\ updateBroadcasts("package", packageScanningState')

NoPkgCallback == UNCHANGED <<packageScanningState, mirror>>

\* ----------------------------------------------- PackageTracker, one run
\* the ids a run keeps for the record once it has handled emailId
Traced(ids, emailId) == IF traceItems THEN ids \cup {emailId} ELSE ids

\* the calendar days inside the bounds of the query searchPackageEmails
\* builds for a range: `after:` startDate, `before:` endDate
queryDays(range) == {d \in 0..range.endDate : range.startDate <= d /\ d < range.endDate}

TracedDays(days, range) == IF traceItems THEN days \cup queryDays(range) ELSE days

newPkgRun(opts) ==
    [pc |-> "initDB", options |-> opts, optimizedRanges |-> <<>>, rangeIndex |-> 0,
     allEmailIds |-> <<>>, newEmailIds |-> <<>>, i |-> 0, totalEmailsScanned |-> 0,
     earliestEmailTimestamp |-> Null, latestEmailTimestamp |-> Null,
     allProcessedPackages |-> 0, historySaved |-> 0, searches |-> 0,
     fetchedIds |-> {}, failedIds |-> {}, searchedDays |-> {},
     step |-> "", progress |-> Null, response |-> "none"]

\* a run's record once processPackageEmails has returned or thrown: its
\* locals are gone
returned(run, pc, step, progress) ==
    [run EXCEPT !.pc = pc, !.step = step, !.progress = progress,
                !.optimizedRanges = <<>>, !.rangeIndex = 0, !.allEmailIds = <<>>,
                !.newEmailIds = <<>>, !.i = 0]

reported(run, pc, step, progress) ==
    [run EXCEPT !.pc = pc, !.step = step, !.progress = progress]

\* (variant: the handler without its isScanning check)
HandleProcessPackageEmails_noCheck(opts) ==
    /\ Len(pkgRuns) < MaxPkgScans
    /\ packageScanningState' = [isScanning |-> TRUE, progress |-> 0,
                                step |-> "initializing", options |-> opts]
    /\ saveScanningStates(subscriptionScanningState, packageScanningState', "package")
    /\ startBroadcasts("package", "SCANNING_STATE_CHANGED", "initializing",
                       Len(pkgRuns) + 1)
    /\ pkgRuns' = Append(pkgRuns, [newPkgRun(opts) EXCEPT !.pc = firstPc])
    /\ UNCHANGED <<rangeVars, packages, pkgRejected, dedupSeen, subVars, envVars, progressVars, callerVars, scannerVars, llmVars, startVars>>

\* handleMessage PROCESS_PACKAGE_EMAILS, up to the call of packageDB.initDB()
HandleProcessPackageEmails(opts) ==
    IF packageScanningState.isScanning
    THEN /\ pkgRejected < MaxRejected
         /\ pkgRejected' = pkgRejected + 1
         /\ UNCHANGED <<rangeVars, packages, packageScanningState, mirror, pkgRuns,
                        dedupSeen, subVars, envVars, progressVars, callerVars, scannerVars, llmVars, startVars>>
    ELSE /\ Len(pkgRuns) < MaxPkgScans
         /\ packageScanningState' = [isScanning |-> TRUE, progress |-> 0,
                                     step |-> "initializing", options |-> opts]
         /\ saveScanningStates(subscriptionScanningState, packageScanningState',
                               "package")
         /\ startBroadcasts("package", "SCANNING_STATE_CHANGED", "initializing",
                            Len(pkgRuns) + 1)
         /\ pkgRuns' = Append(pkgRuns, [newPkgRun(opts) EXCEPT !.pc = firstPc])
         /\ UNCHANGED <<rangeVars, packages, pkgRejected, dedupSeen,
                        subVars, envVars, progressVars, callerVars, scannerVars, llmVars, startVars>>

\* packageDB.initDB() settles; processPackageEmails starts and reports
\* 'optimizing'
PkgInitDB(r) ==
    /\ pkgRuns[r].pc = "initDB"
    /\ \E ok \in DbOutcomes :
         IF ok
         THEN /\ PkgCallback("optimizing", 5)
              /\ pkgRuns' = [pkgRuns EXCEPT ![r] = reported(@, "optimizing", "optimizing", 5)]
         ELSE /\ NoPkgCallback
              /\ pkgRuns' = [pkgRuns EXCEPT ![r].pc = "rejected"]
    /\ UNCHANGED <<rangeVars, packages, pkgRejected, dedupSeen,
                   subVars, envVars, progressVars, callerVars, scannerVars, llmVars, startVars>>

\* (variant: any answer of one range ends the run)
PkgOptimized_anySingleRange(r, readOk, threw) ==
    /\ pkgRuns[r].pc = "optimizing"
    /\ LET run    == pkgRuns[r]
           ranges == tryGetOptimizedScanRanges(scanHistory, run.options.startDate,
                                               run.options.endDate, readOk, threw)
       IN  IF Len(ranges) = 1
           THEN /\ PkgCallback("complete", 100)
                /\ pkgRuns' = [pkgRuns EXCEPT ![r] = returned(@, "resolved", "complete", 100)]
           ELSE /\ NoPkgCallback
                /\ pkgRuns' = [pkgRuns EXCEPT ![r].pc = "rangeLoop",
                                              ![r].optimizedRanges = ranges,
                                              ![r].rangeIndex = 0]
    /\ UNCHANGED <<rangeVars, packages, pkgRejected, dedupSeen,
                   subVars, envVars, progressVars, callerVars, scannerVars, llmVars, startVars>>

\* getOptimizedScanRanges returns; the fully-scanned sentinel ends the run
PkgOptimized(r, readOk, threw) ==
    /\ pkgRuns[r].pc = "optimizing"
    /\ LET run    == pkgRuns[r]
           ranges == tryGetOptimizedScanRanges(scanHistory, run.options.startDate,
                                               run.options.endDate, readOk, threw)
       IN  IF Len(ranges) = 1 /\ ranges[1].startDate = Null
           THEN /\ PkgCallback("complete", 100)
                /\ pkgRuns' = [pkgRuns EXCEPT ![r] = returned(@, "resolved", "complete", 100)]
           ELSE /\ NoPkgCallback
                /\ pkgRuns' = [pkgRuns EXCEPT ![r].pc = "rangeLoop",
                                              ![r].optimizedRanges = ranges,
                                              ![r].rangeIndex = 0]
    /\ UNCHANGED <<rangeVars, packages, pkgRejected, dedupSeen,
                   subVars, envVars, progressVars, callerVars, scannerVars, llmVars, startVars>>

\* head of the loop over optimizedRanges: report 'scanning' and search, or
\* leave the loop and report 'saving'
PkgNextRange(r) ==
    /\ pkgRuns[r].pc = "rangeLoop"
    /\ LET run == pkgRuns[r]
           n   == Len(run.optimizedRanges)
       IN  IF run.rangeIndex < n
           THEN LET p == rangeProgress(run.rangeIndex, n, 5)
                IN  /\ PkgCallback("scanning", p)
                    /\ pkgRuns' = [pkgRuns EXCEPT ![r] =
                           [reported(@, "searching", "scanning", p)
                               EXCEPT !.searches = @ + 1,
                                      !.searchedDays =
                                          TracedDays(@, run.optimizedRanges[run.rangeIndex + 1])]]
           ELSE /\ PkgCallback("saving", 90)
                /\ pkgRuns' = [pkgRuns EXCEPT ![r] = reported(@, "saving", "saving", 90)]
    /\ UNCHANGED <<rangeVars, packages, pkgRejected, dedupSeen,
                   subVars, envVars, progressVars, callerVars, scannerVars, llmVars, startVars>>

\* (variant: the outer catch saves a history entry for the requested window
\* before it reports 'error')
PkgSearched_savesOnError(r, ok) ==
    /\ pkgRuns[r].pc = "searching"
    /\ LET run   == pkgRuns[r]
           n     == Len(run.optimizedRanges)
           range == run.optimizedRanges[run.rangeIndex + 1]
           ids   == searchPackageEmails(range.startDate, range.endDate)
       IN  IF ~ok
           THEN /\ PkgCallback("error", 0)
                /\ scanHistory' = saveScanHistory(scanHistory,
                       [emailsScanned          |-> run.totalEmailsScanned,
                        earliestEmailTimestamp |-> run.options.startDate,
                        latestEmailTimestamp   |-> run.options.endDate,
                        startDateRequested     |-> run.options.startDate,
                        endDateRequested       |-> run.options.endDate,
                        packagesFound          |-> run.allProcessedPackages])
                /\ pkgRuns' = [pkgRuns EXCEPT ![r] =
                       [returned(@, "rejected", "error", 0) EXCEPT !.historySaved = @ + 1]]
           ELSE /\ UNCHANGED scanHistory
                /\ IF Len(ids) = 0
                   THEN LET p == rangeProgress(run.rangeIndex, n, 80)
                        IN  /\ PkgCallback("scanning", p)
                            /\ pkgRuns' = [pkgRuns EXCEPT ![r] =
                                   [reported(@, "rangeLoop", "scanning", p)
                                       EXCEPT !.rangeIndex = @ + 1]]
                   ELSE LET p == rangeProgress(run.rangeIndex, n, 10)
                        IN  /\ PkgCallback("filtering", p)
                            /\ pkgRuns' = [pkgRuns EXCEPT ![r] =
                                   [reported(@, "filtering", "filtering", p)
                                       EXCEPT !.allEmailIds = ids,
                                              !.totalEmailsScanned = @ + Len(ids)]]
    /\ UNCHANGED <<options, optimizedRanges, packages, pkgRejected, dedupSeen,
                   subVars, envVars, progressVars, callerVars, scannerVars, llmVars, startVars>>

\* searchPackageEmails settles: a failure is thrown to the outer catch, which
\* reports 'error'; an empty result ends the range
PkgSearched(r, ok) ==
    /\ pkgRuns[r].pc = "searching"
    /\ LET run   == pkgRuns[r]
           n     == Len(run.optimizedRanges)
           range == run.optimizedRanges[run.rangeIndex + 1]
           ids   == searchPackageEmails(range.startDate, range.endDate)
       IN  IF ~ok
           THEN /\ PkgCallback("error", 0)
                /\ pkgRuns' = [pkgRuns EXCEPT ![r] = returned(@, "rejected", "error", 0)]
           ELSE IF Len(ids) = 0
           THEN LET p == rangeProgress(run.rangeIndex, n, 80)
                IN  /\ PkgCallback("scanning", p)
                    /\ pkgRuns' = [pkgRuns EXCEPT ![r] =
                           [reported(@, "rangeLoop", "scanning", p)
                               EXCEPT !.rangeIndex = @ + 1]]
           ELSE LET p == rangeProgress(run.rangeIndex, n, 10)
                IN  /\ PkgCallback("filtering", p)
                    /\ pkgRuns' = [pkgRuns EXCEPT ![r] =
                           [reported(@, "filtering", "filtering", p)
                               EXCEPT !.allEmailIds = ids,
                                      !.totalEmailsScanned = @ + Len(ids)]]
    /\ UNCHANGED <<rangeVars, packages, pkgRejected, dedupSeen,
                   subVars, envVars, progressVars, callerVars, scannerVars, llmVars, startVars>>

\* the emailExists loop: unread are the ids whose getAll request failed
\* (emailExists then answers false)
PkgFiltered(r, unread) ==
    /\ pkgRuns[r].pc = "filtering"
    /\ LET run    == pkgRuns[r]
           n      == Len(run.optimizedRanges)
           exists(m) == m \notin unread /\ emailExists(packages, m)
           newIds == newEmailIdsOf(run.allEmailIds, packages, unread)
       IN  /\ dedupSeen' = dedupSeen \cup
                  {run.allEmailIds[k] : k \in {j \in 1..Len(run.allEmailIds) :
                                                  exists(run.allEmailIds[j])}}
           /\ IF Len(newIds) = 0
              THEN LET p == rangeProgress(run.rangeIndex, n, 80)
                   IN  /\ PkgCallback("filtering", p)
                       /\ pkgRuns' = [pkgRuns EXCEPT ![r] =
                              [reported(@, "rangeLoop", "filtering", p)
                                  EXCEPT !.rangeIndex = @ + 1, !.allEmailIds = <<>>]]
              ELSE /\ NoPkgCallback
                   /\ pkgRuns' = [pkgRuns EXCEPT ![r].pc = "emailLoop",
                                                 ![r].newEmailIds = newIds,
                                                 ![r].i = 0]
    /\ UNCHANGED <<rangeVars, packages, pkgRejected, subVars, envVars, progressVars, callerVars, scannerVars, llmVars, startVars>>

\* head of the loop over newEmailIds: report 'processing' and fetch, or end
\* the range
PkgNextEmail(r) ==
    /\ pkgRuns[r].pc = "emailLoop"
    /\ LET run == pkgRuns[r]
           n   == Len(run.optimizedRanges)
       IN  IF run.i < Len(run.newEmailIds)
           THEN LET p == emailProgress(run.rangeIndex, n, run.i, Len(run.newEmailIds))
                IN  /\ PkgCallback("processing", p)
                    /\ pkgRuns' = [pkgRuns EXCEPT ![r] =
                           [reported(@, "fetching", "processing", p)
                               EXCEPT !.fetchedIds = Traced(@, run.newEmailIds[run.i + 1])]]
           ELSE /\ NoPkgCallback
                /\ pkgRuns' = [pkgRuns EXCEPT ![r].pc = "rangeLoop",
                                              ![r].rangeIndex = @ + 1,
                                              ![r].allEmailIds = <<>>,
                                              ![r].newEmailIds = <<>>,
                                              ![r].i = 0]
    /\ UNCHANGED <<rangeVars, packages, pkgRejected, dedupSeen,
                   subVars, envVars, progressVars, callerVars, scannerVars, llmVars, startVars>>

\* (variant: a failed fetch is not caught per email and reaches the outer
\* catch, which reports 'error')
PkgFetched_noCatch(r, ok) ==
    /\ pkgRuns[r].pc = "fetching"
    /\ LET run == pkgRuns[r]
           emailTimestamp == MailDay[run.newEmailIds[run.i + 1]]
       IN  IF ~ok
           THEN /\ PkgCallback("error", 0)
                /\ pkgRuns' = [pkgRuns EXCEPT ![r] = returned(@, "rejected", "error", 0)]
           ELSE /\ NoPkgCallback
                /\ pkgRuns' = [pkgRuns EXCEPT
                       ![r].pc = "classifying",
                       ![r].earliestEmailTimestamp =
                           IF @ = Null \/ emailTimestamp < @ THEN emailTimestamp ELSE @,
                       ![r].latestEmailTimestamp =
                           IF @ = Null \/ emailTimestamp > @ THEN emailTimestamp ELSE @]
    /\ UNCHANGED <<rangeVars, packages, pkgRejected, dedupSeen,
                   subVars, envVars, progressVars, callerVars, scannerVars, llmVars, startVars>>

\* gmailScanner.fetchEmail settles: a failure is caught per email
PkgFetched(r, ok) ==
    /\ pkgRuns[r].pc = "fetching"
    /\ LET run == pkgRuns[r]
           emailTimestamp == MailDay[run.newEmailIds[run.i + 1]]
       IN  IF ~ok
           THEN pkgRuns' = [pkgRuns EXCEPT ![r].pc = "emailLoop", ![r].i = @ + 1,
                                           ![r].failedIds = Traced(@, run.newEmailIds[run.i + 1])]
           ELSE pkgRuns' = [pkgRuns EXCEPT
                    ![r].pc = "classifying",
                    ![r].earliestEmailTimestamp =
                        IF @ = Null \/ emailTimestamp < @ THEN emailTimestamp ELSE @,
                    ![r].latestEmailTimestamp =
                        IF @ = Null \/ emailTimestamp > @ THEN emailTimestamp ELSE @]
    /\ NoPkgCallback
    /\ UNCHANGED <<rangeVars, packages, pkgRejected, dedupSeen,
                   subVars, envVars, progressVars, callerVars, scannerVars, llmVars, startVars>>

\* extractDeliveryInfo settles ("error": the model call or JSON.parse threw);
\* a delivery email is saved with savePackageToDB
PkgClassified(r, outcome, saved) ==
    /\ pkgRuns[r].pc = "classifying"
    /\ LET run     == pkgRuns[r]
           emailId == run.newEmailIds[run.i + 1]
       IN  IF outcome = "delivery" /\ saved
           THEN /\ packages' = savePackageToDB(packages,
                                   [emailId |-> emailId, deliveryTime |-> MailDay[emailId]])
                /\ pkgRuns' = [pkgRuns EXCEPT ![r].pc = "emailLoop", ![r].i = @ + 1,
                                              ![r].allProcessedPackages = @ + 1]
           ELSE /\ UNCHANGED packages
                /\ pkgRuns' = [pkgRuns EXCEPT
                       ![r].pc = "emailLoop", ![r].i = @ + 1,
                       ![r].failedIds = IF outcome = "other" THEN @ ELSE Traced(@, emailId)]
    /\ NoPkgCallback
    /\ UNCHANGED <<rangeVars, pkgRejected, dedupSeen, subVars, envVars, progressVars, callerVars, scannerVars, llmVars, startVars>>

\* step 3: saveScanHistory when totalEmailsScanned > 0, then the second
\* 'saving' report
PkgSavedHistory(r, ok) ==
    /\ pkgRuns[r].pc = "saving"
    /\ LET run == pkgRuns[r]
           scanHistoryData ==
               [emailsScanned          |-> run.totalEmailsScanned,
                earliestEmailTimestamp |-> IF run.earliestEmailTimestamp # Null
                                           THEN run.earliestEmailTimestamp
                                           ELSE run.options.startDate,
                latestEmailTimestamp   |-> IF run.latestEmailTimestamp # Null
                                           THEN run.latestEmailTimestamp
                                           ELSE run.options.endDate,
                startDateRequested     |-> run.options.startDate,
                endDateRequested       |-> run.options.endDate,
                packagesFound          |-> run.allProcessedPackages]
       IN  IF run.totalEmailsScanned > 0 /\ ok
           THEN /\ scanHistory' = saveScanHistory(scanHistory, scanHistoryData)
                /\ pkgRuns' = [pkgRuns EXCEPT ![r] =
                       [reported(@, "completing", "saving", 95) EXCEPT !.historySaved = @ + 1]]
           ELSE /\ UNCHANGED scanHistory
                /\ pkgRuns' = [pkgRuns EXCEPT ![r] = reported(@, "completing", "saving", 95)]
    /\ PkgCallback("saving", 95)
    /\ UNCHANGED <<options, optimizedRanges, packages, pkgRejected, dedupSeen,
                   subVars, envVars, progressVars, callerVars, scannerVars, llmVars, startVars>>

\* the final report and the return of allProcessedPackages
PkgCompleted(r) ==
    /\ pkgRuns[r].pc = "completing"
    /\ PkgCallback("complete", 100)
    /\ pkgRuns' = [pkgRuns EXCEPT ![r] = returned(@, "resolved", "complete", 100)]
    /\ UNCHANGED <<rangeVars, packages, pkgRejected, dedupSeen,
                   subVars, envVars, progressVars, callerVars, scannerVars, llmVars, startVars>>

\* handleMessage PROCESS_PACKAGE_EMAILS, the .then / .catch of the run:
\* isScanning is reset, the states are saved and the requester is answered
PkgSettled(r) ==
    /\ pkgRuns[r].pc \in {"resolved", "rejected"}
    /\ packageScanningState' = [packageScanningState EXCEPT !.isScanning = FALSE]
    /\ saveScanningStates(subscriptionScanningState, packageScanningState', "package")
    /\ broadcasts' = [broadcasts EXCEPT !.package =
                         sent("SCANNING_STATE_CHANGED", FALSE,
                              IF pkgRuns[r].pc = "resolved" THEN "complete" ELSE "error",
                              "package", pending')]
    /\ UNCHANGED calls
    /\ pkgRuns' = [pkgRuns EXCEPT
                      ![r].pc = "done",
                      ![r].response = IF pkgRuns[r].pc = "resolved" THEN "success"
                                      ELSE "failure"]
    /\ UNCHANGED <<rangeVars, packages, pkgRejected, dedupSeen,
                   subVars, envVars, progressVars, callerVars, scannerVars, llmVars, startVars>>

\* the windows package scans are asked for: the whole calendar, a window
\* inside it that holds mail, one that holds none, one at its start
Window(s, e) == [startDate |-> s, endDate |-> e]
Windows == {Window(0, 4), Window(2, 3), Window(1, 2), Window(0, 2)}

\* outcomes of the two requests of markPackageAsPickedUp
PickupOutcomes == IF dbFaulty THEN {"ok", "getError", "putError"} ELSE {"ok"}

\* (variant: the record is put even when store.get found none)
markPackageAsPickedUp_upsert(store, packageId, outcome) ==
    IF outcome = "getError"
    THEN [store |-> store, success |-> FALSE, error |-> "Failed to find package"]
    ELSE IF outcome = "putError"
    THEN [store |-> store, success |-> FALSE, error |-> "Failed to update package"]
    ELSE IF \E k \in 1..Len(store) : store[k].id = packageId
    THEN [store |-> [k \in 1..Len(store) |->
                        IF store[k].id = packageId
                        THEN [store[k] EXCEPT !.pickedUp = TRUE] ELSE store[k]],
          success |-> TRUE, error |-> ""]
    ELSE [store |-> Append(store, [id |-> packageId, emailId |-> Null,
                                   deliveryTime |-> Null, pickedUp |-> TRUE]),
          success |-> TRUE, error |-> ""]

\* (variant: the flag is inverted, not set)
markPackageAsPickedUp_toggle(store, packageId, outcome) ==
    IF outcome = "getError"
    THEN [store |-> store, success |-> FALSE, error |-> "Failed to find package"]
    ELSE IF ~\E k \in 1..Len(store) : store[k].id = packageId
    THEN [store |-> store, success |-> FALSE, error |-> "Package not found"]
    ELSE IF outcome = "putError"
    THEN [store |-> store, success |-> FALSE, error |-> "Failed to update package"]
    ELSE [store |-> [k \in 1..Len(store) |->
                        IF store[k].id = packageId
                        THEN [store[k] EXCEPT !.pickedUp = ~@] ELSE store[k]],
          success |-> TRUE, error |-> ""]

\* markPackageAsPickedUp: store.get(packageId); a record found is put back
\* with pickedUp true, none found rejects with 'Package not found'
markPackageAsPickedUp(store, packageId, outcome) ==
    IF outcome = "getError"
    THEN [store |-> store, success |-> FALSE, error |-> "Failed to find package"]
    ELSE IF ~\E k \in 1..Len(store) : store[k].id = packageId
    THEN [store |-> store, success |-> FALSE, error |-> "Package not found"]
    ELSE IF outcome = "putError"
    THEN [store |-> store, success |-> FALSE, error |-> "Failed to update package"]
    ELSE [store |-> [k \in 1..Len(store) |->
                        IF store[k].id = packageId
                        THEN [store[k] EXCEPT !.pickedUp = TRUE] ELSE store[k]],
          success |-> TRUE, error |-> ""]

\* getUnpickedPackages: getAll filtered on pickedUp === false, sorted by
\* delivery time, newest first
NotPickedUp(pkg) == pkg.pickedUp = FALSE

getUnpickedPackages(store) == SortBy(SelectSeq(store, NotPickedUp), "deliveryTime", -1)

\* handleMessage MARK_PACKAGE_PICKED_UP: the record or the error is sent back
MarkPackagePickedUp(packageId, outcome) ==
    /\ LET marked == markPackageAsPickedUp(packages, packageId, outcome)
       IN  /\ packages' = marked.store
           /\ pickup' = [packageId |-> packageId, success |-> marked.success,
                         error |-> marked.error]
    /\ UNCHANGED <<rangeVars, packageScanningState, mirror, pkgRuns, pkgRejected,
                   dedupSeen, subVars, envVars, progressVars, scannerVars, llmVars, startVars>>

\* the keys of the records the widget shows (getUnpickedPackages)
Unpicked == {packages[k].id : k \in {j \in 1..Len(packages) : ~packages[j].pickedUp}}

RangeOf(seq) == {seq[k] : k \in 1..Len(seq)}
ReadFailures(ids) == IF dbFaulty THEN SUBSET RangeOf(ids) ELSE {{}}

PkgRunIds == 1..Len(pkgRuns)

NextPkg ==
    \/ \E opts \in Windows : HandleProcessPackageEmails(opts)
    \/ \E r \in PkgRunIds : PkgInitDB(r)
    \/ \E r \in PkgRunIds, readOk \in DbOutcomes, threw \in DbThrows :
          PkgOptimized(r, readOk, threw)
    \/ \E r \in PkgRunIds : PkgNextRange(r)
    \/ \E r \in PkgRunIds, ok \in BOOLEAN : PkgSearched(r, ok)
    \/ \E r \in PkgRunIds :
          \E unread \in ReadFailures(pkgRuns[r].allEmailIds) : PkgFiltered(r, unread)
    \/ \E r \in PkgRunIds : PkgNextEmail(r)
    \/ \E r \in PkgRunIds, ok \in BOOLEAN : PkgFetched(r, ok)
    \/ \E r \in PkgRunIds, outcome \in LlmOutcomes, saved \in DbOutcomes :
          PkgClassified(r, outcome, saved)
    \/ \E r \in PkgRunIds, ok \in DbOutcomes : PkgSavedHistory(r, ok)
    \/ \E r \in PkgRunIds : PkgCompleted(r)
    \/ \E r \in PkgRunIds : PkgSettled(r)
    \/ \E packageId \in Unpicked, outcome \in PickupOutcomes :
          MarkPackagePickedUp(packageId, outcome)

InitPkg == InitCommon /\ dbFaulty = FALSE /\ storageLag = FALSE /\ tzOffset = 0 /\ llmAvailable = TRUE /\ traceItems = FALSE

SpecPkg == InitPkg /\ [][NextPkg]_vars

\* package scans whose runs keep the ids they fetched and those that failed
InitRetry ==
    /\ InitCommon /\ dbFaulty = FALSE /\ storageLag = FALSE /\ tzOffset = 0
    /\ llmAvailable = TRUE
    /\ traceItems = TRUE

SpecRetry == InitRetry /\ [][NextPkg]_vars

MaxFaultyScans == 2

\* package scans over an IndexedDB whose requests can fail (onerror)
InitPkgFaulty == InitCommon /\ dbFaulty = TRUE /\ storageLag = FALSE /\ tzOffset = 0 /\ llmAvailable = TRUE /\ traceItems = FALSE

NextPkgFaulty == NextPkg /\ Len(pkgRuns') <= MaxFaultyScans

SpecPkgFaulty == InitPkgFaulty /\ [][NextPkgFaulty]_vars

\* one package scan, and pickup requests for any key: those of the records
\* and one (0) that no record has
MaxPickupScans == 1

NextPickup ==
    \/ Len(pkgRuns) < MaxPickupScans /\ HandleProcessPackageEmails(Window(0, 4))
    \/ \E r \in PkgRunIds : PkgInitDB(r)
    \/ \E r \in PkgRunIds : PkgOptimized(r, TRUE, FALSE)
    \/ \E r \in PkgRunIds : PkgNextRange(r)
    \/ \E r \in PkgRunIds : PkgSearched(r, TRUE)
    \/ \E r \in PkgRunIds : PkgFiltered(r, {})
    \/ \E r \in PkgRunIds : PkgNextEmail(r)
    \/ \E r \in PkgRunIds : PkgFetched(r, TRUE)
    \/ \E r \in PkgRunIds, outcome \in LlmOutcomes : PkgClassified(r, outcome, TRUE)
    \/ \E r \in PkgRunIds : PkgSavedHistory(r, TRUE)
    \/ \E r \in PkgRunIds : PkgCompleted(r)
    \/ \E r \in PkgRunIds : PkgSettled(r)
    \/ \E packageId \in 0..Len(packages), outcome \in PickupOutcomes :
          MarkPackagePickedUp(packageId, outcome)

SpecPickup == InitPkg /\ [][NextPickup]_vars

\* package scans while the language model is not available
InitNoModel == InitCommon /\ dbFaulty = FALSE /\ storageLag = FALSE /\ tzOffset = 0
               /\ llmAvailable = FALSE /\ traceItems = FALSE

\* no record is ever saved, so there is no package to mark as picked up
NextNoModel ==
    \/ \E opts \in Windows : HandleProcessPackageEmails(opts)
    \/ \E r \in PkgRunIds : PkgInitDB(r)
    \/ \E r \in PkgRunIds : PkgOptimized(r, TRUE, FALSE)
    \/ \E r \in PkgRunIds : PkgNextRange(r)
    \/ \E r \in PkgRunIds, ok \in BOOLEAN : PkgSearched(r, ok)
    \/ \E r \in PkgRunIds : PkgFiltered(r, {})
    \/ \E r \in PkgRunIds : PkgNextEmail(r)
    \/ \E r \in PkgRunIds, ok \in BOOLEAN : PkgFetched(r, ok)
    \/ \E r \in PkgRunIds, outcome \in LlmOutcomes : PkgClassified(r, outcome, TRUE)
    \/ \E r \in PkgRunIds : PkgSavedHistory(r, TRUE)
    \/ \E r \in PkgRunIds : PkgCompleted(r)
    \/ \E r \in PkgRunIds : PkgSettled(r)

SpecNoModel == InitNoModel /\ [][NextNoModel]_vars

\* ------------------------------------------- subscription mail and stores
\* The messages the subscription query matches, newest first, the day each
\* was sent, and those isLikelySubscriptionEmail turns down.
SubMailIds == <<3, 2, 1>>
SubMailDay == <<3, 10, 12>>
SubNotLikely == {3}

\* the billing dates the model extracts: 2024-01-31 and 2024-03-01, or none
\* (null: the email's own date is used)
BillingDates == {30, 60, Null}

searchSubscriptionEmails(startDate, endDate) ==
    SelectSeq(SubMailIds, LAMBDA m : startDate <= SubMailDay[m] /\ SubMailDay[m] < endDate)

saveSubscriptionToDB(store, subscriptionData) ==
    Append(store, [id           |-> Len(store) + 1,
                   billingDate  |-> subscriptionData.billingDate,
                   reminderDate |-> subscriptionData.reminderDate,
                   emailId      |-> subscriptionData.emailId])

\* cursor 'prev' on the scanDate index: the endDate of the newest entry
getLatestSubscriptionScanDate(store) ==
    IF Len(store) = 0 THEN Null ELSE store[Len(store)].endDate

saveSubscriptionScanHistory(store, scanData) ==
    Append(store, [scanDate |-> Len(store) + 1,
                   startDate |-> scanData.startDate,
                   endDate |-> scanData.endDate,
                   emailsScanned |-> scanData.emailsScanned,
                   subscriptionsFound |-> scanData.subscriptionsFound,
                   calendarEventsCreated |-> scanData.calendarEventsCreated])

calendarEventExists(store, emailId) == \E k \in 1..Len(store) : store[k].emailId = emailId

saveCalendarEventRecord(store, eventData) ==
    Append(store, [id |-> Len(store) + 1, emailId |-> eventData.emailId,
                   calendarEventId |-> eventData.calendarEventId])

\* subscriptionProgressCallback, then updateProgressState('subscription', ...)
SubCallback(step, progress) ==
    /\ subscriptionScanningState' =
           [subscriptionScanningState EXCEPT
               !.step = IF step \in {"complete", "error"} THEN step ELSE "subscription_scan",
               !.progress = progress]
    /\ saveScanningStates(subscriptionScanningState', packageScanningState,
                          "subscription")
    /\ updateBroadcasts("subscription", subscriptionScanningState')

NoSubCallback == UNCHANGED <<subscriptionScanningState, mirror>>

\* Math.round(30 + (processedEmails / totalEmails) * 50)
subEmailProgress(processedEmails, totalEmails) ==
    Round(30 * totalEmails + processedEmails * 50, totalEmails)

\* ------------------------------------------- SubscriptionTracker, one run
newSubRun ==
    [pc |-> "initDB", startDate |-> Null, endDate |-> Null, emailIds |-> <<>>, i |-> 0,
     analyzedEmails |-> 0, subscriptions |-> <<>>, j |-> 0, createdEvents |-> 0,
     step |-> "", progress |-> Null, response |-> "none"]

subReturned(run, pc, step, progress) ==
    [run EXCEPT !.pc = pc, !.step = step, !.progress = progress,
                !.emailIds = <<>>, !.i = 0, !.analyzedEmails = 0,
                !.subscriptions = <<>>, !.j = 0]

\* (variant: the handler without its isScanning check)
HandleScanSubscriptionEmails_noCheck ==
    /\ Len(subRuns) < MaxSubScans
    /\ subscriptionScanningState' =
           [isScanning |-> TRUE, progress |-> 0, step |-> "subscription_scan",
            options |-> [type |-> "subscription"]]
    /\ saveScanningStates(subscriptionScanningState', packageScanningState,
                          "subscription")
    /\ startBroadcasts("subscription", "PROGRESS_UPDATE", "subscription_scan",
                       Len(subRuns) + 1)
    /\ subRuns' = Append(subRuns, [newSubRun EXCEPT !.pc = firstPc])
    /\ UNCHANGED <<rangeVars, pkgOwn, packageScanningState, subscriptions,
                   calendarEventRecords, calendarEvents, subScanHistory,
                   subRejected, envVars, progressVars, callerVars, scannerVars, llmVars, startVars>>

\* handleMessage SCAN_SUBSCRIPTION_EMAILS, up to the call of packageDB.initDB()
HandleScanSubscriptionEmails ==
    IF subscriptionScanningState.isScanning
    THEN /\ subRejected < MaxRejected
         /\ subRejected' = subRejected + 1
         /\ UNCHANGED <<rangeVars, pkgVars, subscriptions, calendarEventRecords,
                        calendarEvents, subScanHistory, subRuns,
                        subscriptionScanningState, envVars, progressVars, callerVars, scannerVars, llmVars, startVars>>
    ELSE /\ Len(subRuns) < MaxSubScans
         /\ subscriptionScanningState' =
                [isScanning |-> TRUE, progress |-> 0, step |-> "subscription_scan",
                 options |-> [type |-> "subscription"]]
         /\ saveScanningStates(subscriptionScanningState', packageScanningState,
                               "subscription")
         /\ startBroadcasts("subscription", "PROGRESS_UPDATE", "subscription_scan",
                            Len(subRuns) + 1)
         /\ subRuns' = Append(subRuns, [newSubRun EXCEPT !.pc = firstPc])
         /\ UNCHANGED <<rangeVars, pkgOwn, packageScanningState, subscriptions,
                        calendarEventRecords, calendarEvents, subScanHistory,
                        subRejected, envVars, progressVars, callerVars, scannerVars, llmVars, startVars>>

\* packageDB.initDB() settles; scanCurrentMonthSubscriptions picks its window
\* (from the last scan's end date, else the current local month) and reports
\* the search
SubInitDB(r) ==
    /\ subRuns[r].pc = "initDB"
    /\ \E ok \in DbOutcomes :
         IF ok
         THEN LET lastScanDate == getLatestSubscriptionScanDate(subScanHistory)
                  localDay == (today * 24 + NoonHour + tzOffset) \div 24
                  y == YearOf(localDay)
                  m == MonthOf(localDay)
                  startDate == IF lastScanDate # Null THEN lastScanDate
                               ELSE localMidnightIso(y, m, 1, tzOffset)
                  endDate   == IF lastScanDate # Null THEN today
                               ELSE localMidnightIso(y, m + 1, 0, tzOffset)
              IN  /\ SubCallback("subscription_scan", 10)
                  /\ subRuns' = [subRuns EXCEPT ![r].pc = "searching",
                                                ![r].startDate = startDate,
                                                ![r].endDate = endDate,
                                                ![r].step = "subscription_scan",
                                                ![r].progress = 10]
         ELSE /\ NoSubCallback
              /\ subRuns' = [subRuns EXCEPT ![r].pc = "rejected"]
    /\ UNCHANGED <<rangeVars, pkgOwn, packageScanningState, subscriptions,
                   calendarEventRecords, calendarEvents, subScanHistory, subRejected,
                   envVars, progressVars, callerVars, scannerVars, llmVars, startVars>>

\* searchSubscriptionEmails settles
SubSearched(r, ok) ==
    /\ subRuns[r].pc = "searching"
    /\ LET run == subRuns[r]
           ids == searchSubscriptionEmails(run.startDate, run.endDate)
       IN  IF ~ok
           THEN /\ SubCallback("error", 0)
                /\ subRuns' = [subRuns EXCEPT ![r] = subReturned(@, "rejected", "error", 0)]
           ELSE IF Len(ids) = 0
           THEN /\ SubCallback("complete", 100)
                /\ subRuns' = [subRuns EXCEPT ![r] = subReturned(@, "resolved", "complete", 100)]
           ELSE /\ SubCallback("subscription_scan", 30)
                /\ subRuns' = [subRuns EXCEPT ![r].pc = "emailLoop",
                                              ![r].emailIds = ids, ![r].i = 0,
                                              ![r].step = "subscription_scan",
                                              ![r].progress = 30]
    /\ UNCHANGED <<rangeVars, pkgOwn, packageScanningState, subStores, envVars, progressVars, callerVars, scannerVars, llmVars, startVars>>

\* head of the loop over emailIds: report and fetch, or report the calendar
\* stage
SubNextEmail(r) ==
    /\ subRuns[r].pc = "emailLoop"
    /\ LET run == subRuns[r]
       IN  IF run.i < Len(run.emailIds)
           THEN LET p == subEmailProgress(run.i + 1, Len(run.emailIds))
                IN  /\ SubCallback("subscription_scan", p)
                    /\ subRuns' = [subRuns EXCEPT ![r].pc = "fetching",
                                                  ![r].step = "subscription_scan",
                                                  ![r].progress = p]
           ELSE /\ SubCallback("subscription_scan", 80)
                /\ subRuns' = [subRuns EXCEPT ![r].pc = "eventLoop", ![r].j = 0,
                                              ![r].step = "subscription_scan",
                                              ![r].progress = 80]
    /\ UNCHANGED <<rangeVars, pkgOwn, packageScanningState, subStores, envVars, progressVars, callerVars, scannerVars, llmVars, startVars>>

\* fetchEmail settles; the pre-filter skips an unlikely email, a likely one
\* is reported again and handed to extractSubscriptionInfo
SubFetched(r, ok) ==
    /\ subRuns[r].pc = "fetching"
    /\ LET run     == subRuns[r]
           emailId == run.emailIds[run.i + 1]
       IN  IF ~ok \/ emailId \in SubNotLikely
           THEN /\ NoSubCallback
                /\ subRuns' = [subRuns EXCEPT ![r].pc = "emailLoop", ![r].i = @ + 1]
           ELSE /\ SubCallback("subscription_scan", run.progress)
                /\ subRuns' = [subRuns EXCEPT ![r].pc = "classifying",
                                              ![r].analyzedEmails = @ + 1]
    /\ UNCHANGED <<rangeVars, pkgOwn, packageScanningState, subStores, envVars, progressVars, callerVars, scannerVars, llmVars, startVars>>

\* extractSubscriptionInfo settles; a subscription email gets its reminder
\* date and is saved with saveSubscriptionToDB
SubClassified(r, outcome, extracted, saved) ==
    /\ subRuns[r].pc = "classifying"
    /\ LET run          == subRuns[r]
           emailId      == run.emailIds[run.i + 1]
           billingDate  == IF extracted # Null THEN extracted ELSE SubMailDay[emailId]
           reminderDate == reminderDateOf(billingDate, tzOffset)
       IN  IF outcome = "subscription" /\ saved
           THEN /\ subscriptions' = saveSubscriptionToDB(subscriptions,
                       [billingDate |-> billingDate, reminderDate |-> reminderDate,
                        emailId |-> emailId])
                /\ subRuns' = [subRuns EXCEPT
                       ![r].pc = "emailLoop", ![r].i = @ + 1,
                       ![r].subscriptions =
                           Append(@, [emailId |-> emailId, billingDate |-> billingDate])]
           ELSE /\ UNCHANGED subscriptions
                /\ subRuns' = [subRuns EXCEPT ![r].pc = "emailLoop", ![r].i = @ + 1]
    /\ NoSubCallback
    /\ UNCHANGED <<rangeVars, pkgOwn, packageScanningState, calendarEventRecords,
                   calendarEvents, subScanHistory, subRejected, envVars, progressVars, callerVars, scannerVars, llmVars, startVars>>

\* head of the loop over the found subscriptions: skip one whose calendar
\* event is recorded, else create the event; after the loop report 'complete'
SubNextEvent(r, readOk) ==
    /\ subRuns[r].pc = "eventLoop"
    /\ LET run == subRuns[r]
       IN  IF run.j < Len(run.subscriptions)
           THEN /\ NoSubCallback
                /\ IF readOk /\ calendarEventExists(calendarEventRecords,
                                                    run.subscriptions[run.j + 1].emailId)
                   THEN subRuns' = [subRuns EXCEPT ![r].j = @ + 1]
                   ELSE subRuns' = [subRuns EXCEPT ![r].pc = "creatingEvent"]
           ELSE /\ SubCallback("complete", 100)
                /\ subRuns' = [subRuns EXCEPT ![r].pc = "savingHistory",
                                              ![r].step = "complete",
                                              ![r].progress = 100]
    /\ UNCHANGED <<rangeVars, pkgOwn, packageScanningState, subStores, envVars, progressVars, callerVars, scannerVars, llmVars, startVars>>

\* (variant: a failed event creation is not caught per subscription and
\* reaches the outer catch, which reports 'error')
SubEventCreated_noCatch(r, ok, saved) ==
    /\ subRuns[r].pc = "creatingEvent"
    /\ LET run          == subRuns[r]
           subscription == run.subscriptions[run.j + 1]
           reminderDate == reminderDateOf(subscription.billingDate, tzOffset)
           eventId      == Len(calendarEvents) + 1
       IN  IF ~ok
           THEN /\ SubCallback("error", 0)
                /\ subRuns' = [subRuns EXCEPT ![r] = subReturned(@, "rejected", "error", 0)]
                /\ UNCHANGED <<calendarEvents, calendarEventRecords>>
           ELSE /\ NoSubCallback
                /\ calendarEvents' =
                       Append(calendarEvents, [id |-> eventId, date |-> reminderDate,
                                               emailId |-> subscription.emailId])
                /\ calendarEventRecords' =
                       IF saved
                       THEN saveCalendarEventRecord(calendarEventRecords,
                                [emailId |-> subscription.emailId,
                                 calendarEventId |-> eventId])
                       ELSE calendarEventRecords
                /\ subRuns' = [subRuns EXCEPT
                       ![r].pc = "eventLoop", ![r].j = @ + 1,
                       ![r].createdEvents = IF saved THEN @ + 1 ELSE @]
    /\ UNCHANGED <<rangeVars, pkgOwn, packageScanningState, subscriptions,
                   subScanHistory, subRejected, envVars, progressVars, callerVars, scannerVars, llmVars, startVars>>

\* createSubscriptionReminderEvent and saveCalendarEventRecord settle
SubEventCreated(r, ok, saved) ==
    /\ subRuns[r].pc = "creatingEvent"
    /\ LET run          == subRuns[r]
           subscription == run.subscriptions[run.j + 1]
           reminderDate == reminderDateOf(subscription.billingDate, tzOffset)
           eventId      == Len(calendarEvents) + 1
       IN  /\ calendarEvents' =
                  IF ok THEN Append(calendarEvents,
                                    [id |-> eventId, date |-> reminderDate,
                                     emailId |-> subscription.emailId])
                  ELSE calendarEvents
           /\ calendarEventRecords' =
                  IF ok /\ saved
                  THEN saveCalendarEventRecord(calendarEventRecords,
                           [emailId |-> subscription.emailId, calendarEventId |-> eventId])
                  ELSE calendarEventRecords
           /\ subRuns' = [subRuns EXCEPT
                  ![r].pc = "eventLoop", ![r].j = @ + 1,
                  ![r].createdEvents = IF ok /\ saved THEN @ + 1 ELSE @]
    /\ NoSubCallback
    /\ UNCHANGED <<rangeVars, pkgOwn, packageScanningState, subscriptions,
                   subScanHistory, subRejected, envVars, progressVars, callerVars, scannerVars, llmVars, startVars>>

\* saveSubscriptionScanHistory settles (a failure is only logged) and the
\* created events are returned
SubSavedHistory(r, ok) ==
    /\ subRuns[r].pc = "savingHistory"
    /\ LET run == subRuns[r]
       IN  /\ subScanHistory' =
                  IF ok THEN saveSubscriptionScanHistory(subScanHistory,
                                 [startDate |-> run.startDate, endDate |-> run.endDate,
                                  emailsScanned |-> Len(run.emailIds),
                                  subscriptionsFound |-> Len(run.subscriptions),
                                  calendarEventsCreated |-> run.createdEvents])
                  ELSE subScanHistory
           /\ subRuns' = [subRuns EXCEPT ![r] = subReturned(@, "resolved", "complete", 100)]
    /\ NoSubCallback
    /\ UNCHANGED <<rangeVars, pkgOwn, packageScanningState, subscriptions,
                   calendarEventRecords, calendarEvents, subRejected, envVars, progressVars, callerVars, scannerVars, llmVars, startVars>>

\* handleMessage SCAN_SUBSCRIPTION_EMAILS, the .then / .catch of the run
SubSettled(r) ==
    /\ subRuns[r].pc \in {"resolved", "rejected"}
    /\ subscriptionScanningState' = [subscriptionScanningState EXCEPT !.isScanning = FALSE]
    /\ saveScanningStates(subscriptionScanningState', packageScanningState,
                          "subscription")
    /\ UNCHANGED <<calls, broadcasts>>
    /\ subRuns' = [subRuns EXCEPT
                      ![r].pc = "done",
                      ![r].response = IF subRuns[r].pc = "resolved" THEN "success"
                                      ELSE "failure"]
    /\ UNCHANGED <<rangeVars, pkgOwn, packageScanningState, subscriptions,
                   calendarEventRecords, calendarEvents, subScanHistory, subRejected,
                   envVars, progressVars, callerVars, scannerVars, llmVars, startVars>>

TzOffsets == {-5, 0, 9}

SubRunIds == 1..Len(subRuns)

NextSub ==
    \/ HandleScanSubscriptionEmails
    \/ \E r \in SubRunIds : SubInitDB(r)
    \/ \E r \in SubRunIds, ok \in BOOLEAN : SubSearched(r, ok)
    \/ \E r \in SubRunIds : SubNextEmail(r)
    \/ \E r \in SubRunIds, ok \in BOOLEAN : SubFetched(r, ok)
    \/ \E r \in SubRunIds, extracted \in BillingDates, saved \in DbOutcomes :
          SubClassified(r, "subscription", extracted, saved)
    \/ \E r \in SubRunIds, outcome \in {"other", "error"} :
          SubClassified(r, outcome, Null, TRUE)
    \/ \E r \in SubRunIds, readOk \in DbOutcomes : SubNextEvent(r, readOk)
    \/ \E r \in SubRunIds, ok \in BOOLEAN, saved \in DbOutcomes : SubEventCreated(r, ok, saved)
    \/ \E r \in SubRunIds, ok \in DbOutcomes : SubSavedHistory(r, ok)
    \/ \E r \in SubRunIds : SubSettled(r)

InitSub == InitCommon /\ dbFaulty = FALSE /\ storageLag = FALSE /\ tzOffset \in TzOffsets /\ llmAvailable = TRUE /\ traceItems = FALSE

SpecSub == InitSub /\ [][NextSub]_vars

\* subscription scans over an IndexedDB whose requests can fail (onerror)
InitSubFaulty == InitCommon /\ dbFaulty = TRUE /\ storageLag = FALSE /\ tzOffset = 0 /\ llmAvailable = TRUE /\ traceItems = FALSE

SpecSubFaulty == InitSubFaulty /\ [][NextSub]_vars

\* the continuations of the subscription runs: every step of a run that is
\* not the handling of a new request
SubStep ==
    \/ \E r \in SubRunIds : SubInitDB(r)
    \/ \E r \in SubRunIds, ok \in BOOLEAN : SubSearched(r, ok)
    \/ \E r \in SubRunIds : SubNextEmail(r)
    \/ \E r \in SubRunIds, ok \in BOOLEAN : SubFetched(r, ok)
    \/ \E r \in SubRunIds, extracted \in BillingDates, saved \in DbOutcomes :
          SubClassified(r, "subscription", extracted, saved)
    \/ \E r \in SubRunIds, outcome \in {"other", "error"} :
          SubClassified(r, outcome, Null, TRUE)
    \/ \E r \in SubRunIds, readOk \in DbOutcomes : SubNextEvent(r, readOk)
    \/ \E r \in SubRunIds, ok \in BOOLEAN, saved \in DbOutcomes : SubEventCreated(r, ok, saved)
    \/ \E r \in SubRunIds, ok \in DbOutcomes : SubSavedHistory(r, ok)
    \/ \E r \in SubRunIds : SubSettled(r)

\* subscription scans whose external calls all settle, with success or with
\* failure: the event loop runs the continuation of every settled promise
SpecSubFair == InitSubFaulty /\ [][NextSub]_vars /\ WF_vars(SubStep)

\* --------------------------------------------------------- worker startup
\* A scanning state a previous life of the worker left in storage.
activeState(step, progress, opts) ==
    [isScanning |-> TRUE, progress |-> progress, step |-> step, options |-> opts]

PriorStored ==
    {NothingStored}
    \cup {[present |-> TRUE, subscriptionScanningState |-> sub, packageScanningState |-> pkg] :
            sub \in {cleanState, activeState("subscription_scan", 30, [type |-> "subscription"])},
            pkg \in {cleanState, activeState("processing", 48, Window(2, 3))}}

\* (variant: an active stored state is restored whatever its timestamp)
restored_noStaleTest(state, result, fresh) ==
    IF result.present /\ state \in DOMAIN result /\ result[state].isScanning
    THEN result[state]
    ELSE IF state = "packageScanningState" THEN packageScanningState
         ELSE subscriptionScanningState

\* loadScanningStates once its chrome.storage.local.get has settled: a stored
\* state is taken over when it is active and less than ten minutes old
restored(state, result, fresh) ==
    IF result.present /\ fresh /\ state \in DOMAIN result /\ result[state].isScanning
    THEN result[state]
    ELSE IF state = "packageScanningState" THEN packageScanningState
         ELSE subscriptionScanningState

LoadSettles ==
    /\ loadPc.pc = "pending"
    /\ subscriptionScanningState' =
           restored("subscriptionScanningState", loadPc.result, loadPc.fresh)
    /\ packageScanningState' =
           restored("packageScanningState", loadPc.result, loadPc.fresh)
    /\ loadPc' = [loadPc EXCEPT !.pc = "settled"]
    /\ UNCHANGED <<rangeVars, pkgOwn, subStores, subRuns, mirror, cleanupPc, envVars, progressVars, callerVars, scannerVars, llmVars>>

\* the 'activate' listener: cleanupOnStartup up to its first await; both
\* states are reset and the removal of the stored states is issued
Activate ==
    /\ cleanupPc = "idle"
    /\ subscriptionScanningState' = cleanState
    /\ packageScanningState' = cleanState
    /\ IF storageLag
       THEN /\ pending' = Append(pending, [op |-> "remove", by |-> "cleanup",
                                           subscriptionScanningState |-> cleanState,
                                           packageScanningState |-> cleanState])
            /\ UNCHANGED stored
       ELSE /\ stored' = NothingStored
            /\ UNCHANGED pending
    /\ cleanupPc' = "removing"
    /\ UNCHANGED <<rangeVars, pkgOwn, subStores, subRuns, calls, broadcasts, loadPc,
                   envVars, progressVars, callerVars, scannerVars, llmVars>>

\* cleanupOnStartup after the removal: CLEANUP_SCAN_STATES is sent to the tabs
\* and the popup
CleanupBroadcast ==
    /\ cleanupPc = "removing"
    /\ \A k \in 1..Len(pending) : pending[k].op # "remove"
    /\ cleanupPc' = "done"
    /\ broadcasts' = [c \in DOMAIN broadcasts |->
                         sent("CLEANUP_SCAN_STATES", FALSE, "cleanup", c, pending)]
    /\ UNCHANGED <<rangeVars, pkgOwn, subStores, subRuns, packageScanningState,
                   subscriptionScanningState, stored, pending, calls, loadPc, envVars, progressVars, callerVars, scannerVars, llmVars>>

\* ------------------------------------------------ storage and continuations
\* the oldest chrome.storage.local operation is applied and its promise
\* settles
StorageSettles ==
    /\ pending # <<>>
    /\ LET op == Head(pending)
       IN  stored' = CASE op.op = "states" ->
                            [present |-> TRUE,
                             subscriptionScanningState |-> op.subscriptionScanningState,
                             packageScanningState |-> op.packageScanningState]
                       [] op.op = "remove" -> NothingStored
                       [] OTHER -> stored
    /\ pending' = Tail(pending)
    /\ calls' = [k \in 1..Len(calls) |-> [calls[k] EXCEPT !.wait = Max(@ - 1, 0)]]
    /\ UNCHANGED <<rangeVars, pkgOwn, subStores, subRuns, packageScanningState,
                   subscriptionScanningState, broadcasts, startVars, envVars, progressVars, callerVars, scannerVars, llmVars>>

dropCall(k) == SubSeq(calls, 1, k - 1) \o SubSeq(calls, k + 1, Len(calls))

\* updateProgressState after await saveScanningStates(): the current progress
\* is stored under its own key
UpdateSaved(k) ==
    /\ calls[k].kind = "update" /\ calls[k].phase = "saving" /\ calls[k].wait = 0
    /\ pending' = Append(pending, [op |-> "progress", by |-> calls[k].scanType,
                                   subscriptionScanningState |-> cleanState,
                                   packageScanningState |-> cleanState])
    /\ calls' = [calls EXCEPT ![k] = awaiting("update", @.scanType, "storing", 0, pending')]
    /\ UNCHANGED <<rangeVars, pkgOwn, subStores, subRuns, packageScanningState,
                   subscriptionScanningState, stored, broadcasts, startVars, envVars, progressVars, callerVars, scannerVars, llmVars>>

\* updateProgressState after the current progress is stored: PROGRESS_UPDATE
\* and SCANNING_STATE_CHANGED, the latter built from the state as it is now
UpdateBroadcast(k) ==
    /\ calls[k].kind = "update" /\ calls[k].phase = "storing" /\ calls[k].wait = 0
    /\ LET scanType == calls[k].scanType
           state    == IF scanType = "package" THEN packageScanningState
                       ELSE subscriptionScanningState
       IN  broadcasts' = [broadcasts EXCEPT ![scanType] =
                             sent("SCANNING_STATE_CHANGED", state.isScanning, state.step,
                                  scanType, pending)]
    /\ calls' = dropCall(k)
    /\ UNCHANGED <<rangeVars, pkgOwn, subStores, subRuns, packageScanningState,
                   subscriptionScanningState, stored, pending, startVars, envVars, progressVars, callerVars, scannerVars, llmVars>>

\* handleMessage PROCESS_PACKAGE_EMAILS after await saveScanningStates(): the
\* initial state message is sent and packageDB.initDB() is called
PkgStarted(k) ==
    /\ calls[k].kind = "start" /\ calls[k].scanType = "package" /\ calls[k].wait = 0
    /\ broadcasts' = [broadcasts EXCEPT !.package =
                         sent("SCANNING_STATE_CHANGED", TRUE, "initializing",
                              "package", pending)]
    /\ pkgRuns' = [pkgRuns EXCEPT ![calls[k].r].pc = "initDB"]
    /\ calls' = dropCall(k)
    /\ UNCHANGED <<rangeVars, packages, pkgRejected, dedupSeen, subVars,
                   packageScanningState, stored, pending, startVars, envVars, progressVars, callerVars, scannerVars, llmVars>>

\* handleMessage SCAN_SUBSCRIPTION_EMAILS after await saveScanningStates()
SubStarted(k) ==
    /\ calls[k].kind = "start" /\ calls[k].scanType = "subscription" /\ calls[k].wait = 0
    /\ broadcasts' = [broadcasts EXCEPT !.subscription =
                         sent("PROGRESS_UPDATE", TRUE, "subscription_scan",
                              "subscription", pending)]
    /\ subRuns' = [subRuns EXCEPT ![calls[k].r].pc = "initDB"]
    /\ calls' = dropCall(k)
    /\ UNCHANGED <<rangeVars, pkgOwn, subStores, packageScanningState,
                   subscriptionScanningState, stored, pending, startVars, envVars, progressVars, callerVars, scannerVars, llmVars>>

\* ------------------------------------------ both categories side by side
\* The worker starts with what a previous life left in storage: the load
\* issued at script load settles at any time; when the start is an activation
\* the 'activate' event comes before any message is handled.  Then start
\* requests of both categories and the runs they start, interleaved at every
\* await; the mail source answers every call and the classifier finds the
\* messages to be neither deliveries nor subscriptions.
NextCoord ==
    \/ LoadSettles
    \/ Activate
    \/ CleanupBroadcast
    \/ cleanupPc # "idle" /\ HandleProcessPackageEmails(Window(2, 3))
    \/ \E r \in PkgRunIds : PkgInitDB(r)
    \/ \E r \in PkgRunIds : PkgOptimized(r, TRUE, FALSE)
    \/ \E r \in PkgRunIds : PkgNextRange(r)
    \/ \E r \in PkgRunIds : PkgSearched(r, TRUE)
    \/ \E r \in PkgRunIds : PkgFiltered(r, {})
    \/ \E r \in PkgRunIds : PkgNextEmail(r)
    \/ \E r \in PkgRunIds : PkgFetched(r, TRUE)
    \/ \E r \in PkgRunIds : PkgClassified(r, "other", TRUE)
    \/ \E r \in PkgRunIds : PkgSavedHistory(r, TRUE)
    \/ \E r \in PkgRunIds : PkgCompleted(r)
    \/ \E r \in PkgRunIds : PkgSettled(r)
    \/ cleanupPc # "idle" /\ HandleScanSubscriptionEmails
    \/ \E r \in SubRunIds : SubInitDB(r)
    \/ \E r \in SubRunIds : SubSearched(r, TRUE)
    \/ \E r \in SubRunIds : SubNextEmail(r)
    \/ \E r \in SubRunIds : SubFetched(r, TRUE)
    \/ \E r \in SubRunIds : SubClassified(r, "other", Null, TRUE)
    \/ \E r \in SubRunIds : SubNextEvent(r, TRUE)
    \/ \E r \in SubRunIds : SubSavedHistory(r, TRUE)
    \/ \E r \in SubRunIds : SubSettled(r)

\* the script has just been evaluated: loadScanningStates has issued its get,
\* and an 'activate' event is due ("idle") or none is ("none": the worker
\* was only restarted)
InitCoord ==
    /\ InitStores
    /\ stored \in PriorStored
    /\ \E fresh \in BOOLEAN : loadPc = [pc |-> "pending", result |-> stored, fresh |-> fresh]
    /\ cleanupPc \in {"idle", "none"}
    /\ dbFaulty = FALSE /\ storageLag = FALSE /\ tzOffset = 0 /\ llmAvailable = TRUE /\ traceItems = FALSE

Spec == InitCoord /\ [][NextCoord]_vars

\* ----------------------------------------- storage that settles afterwards
\* One package scan and one subscription scan with a chrome.storage.local
\* whose operations settle, in the order issued, some time after they are
\* issued.
MaxLagScans == 1

NextNotify ==
    \/ StorageSettles
    \/ \E k \in 1..Len(calls) : UpdateSaved(k)
    \/ \E k \in 1..Len(calls) : UpdateBroadcast(k)
    \/ Len(pkgRuns) < MaxLagScans /\ HandleProcessPackageEmails(Window(2, 3))
    \/ \E k \in 1..Len(calls) : PkgStarted(k)
    \/ \E r \in PkgRunIds : PkgInitDB(r)
    \/ \E r \in PkgRunIds : PkgOptimized(r, TRUE, FALSE)
    \/ \E r \in PkgRunIds : PkgNextRange(r)
    \/ \E r \in PkgRunIds : PkgSearched(r, TRUE)
    \/ \E r \in PkgRunIds : PkgFiltered(r, {})
    \/ \E r \in PkgRunIds : PkgNextEmail(r)
    \/ \E r \in PkgRunIds : PkgFetched(r, TRUE)
    \/ \E r \in PkgRunIds : PkgClassified(r, "other", TRUE)
    \/ \E r \in PkgRunIds : PkgSavedHistory(r, TRUE)
    \/ \E r \in PkgRunIds : PkgCompleted(r)
    \/ \E r \in PkgRunIds : PkgSettled(r)

InitNotify == InitCommon /\ dbFaulty = FALSE /\ storageLag = TRUE /\ tzOffset = 0 /\ llmAvailable = TRUE /\ traceItems = FALSE

SpecNotify == InitNotify /\ [][NextNotify]_vars

\* ------------------------------------------------ the shared mail scanner
\* the entry points of a mail search and the query builder each installs on
\* the scanner: searchPackageEmails and searchSubscriptionEmails override
\* gmailScanner.buildSearchQuery, a SEARCH_EMAILS request calls
\* gmailScanner.searchEmails as it is
Installs == [searchPackageEmails |-> "package",
             searchSubscriptionEmails |-> "subscription"]

\* a search by a scan is in flight through this entry point: a scan issues
\* its next search when the last one has settled, and one scan runs per
\* category
ScanSearching(entry) ==
    \E k \in 1..Len(searchCalls) :
        /\ searchCalls[k].entry = entry /\ searchCalls[k].by = "scan"
        /\ searchCalls[k].pc \in {"token", "request"}

\* searchPackageEmails / searchSubscriptionEmails up to the first await of
\* searchEmails: the current builder is kept in originalBuildQuery, the
\* entry's own builder is installed and searchEmails awaits getAuthToken()
SearchTrackerEmails(entry, by) ==
    /\ Len(searchCalls) < MaxSearches
    /\ by = "scan" => ~ScanSearching(entry)
    /\ buildSearchQuery' = Installs[entry]
    /\ searchCalls' = Append(searchCalls,
                             [entry |-> entry, by |-> by, pc |-> "token",
                              originalBuildQuery |-> buildSearchQuery, query |-> ""])
    /\ UNCHANGED <<rangeVars, pkgVars, subVars, envVars, progressVars, callerVars, llmVars, startVars>>

\* handleMessage SEARCH_EMAILS: gmailScanner.searchEmails(message.options)
\* up to its await of getAuthToken()
HandleSearchEmails ==
    /\ Len(searchCalls) < MaxSearches
    /\ searchCalls' = Append(searchCalls,
                             [entry |-> "searchEmails", by |-> "request", pc |-> "token",
                              originalBuildQuery |-> "", query |-> ""])
    /\ UNCHANGED <<buildSearchQuery, rangeVars, pkgVars, subVars, envVars, progressVars, callerVars, llmVars,
                   startVars>>

\* searchEmails after await getAuthToken(): the query is built with the
\* builder the scanner holds now and the first page is requested; without a
\* token searchEmails throws, and the entry point rethrows from its catch
TokenSettles(k, ok) ==
    /\ searchCalls[k].pc = "token"
    /\ searchCalls' = [searchCalls EXCEPT
                          ![k].pc = IF ok THEN "request" ELSE "failed",
                          ![k].query = IF ok THEN buildSearchQuery ELSE @]
    /\ UNCHANGED <<buildSearchQuery, rangeVars, pkgVars, subVars, envVars, progressVars, callerVars, llmVars,
                   startVars>>

\* makeGmailRequest settles: with the ids the entry point puts
\* originalBuildQuery back; a failed request throws past the restore
RequestSettles(k, ok) ==
    /\ searchCalls[k].pc = "request"
    /\ searchCalls' = [searchCalls EXCEPT ![k].pc = IF ok THEN "returned" ELSE "failed"]
    /\ buildSearchQuery' = IF ok /\ searchCalls[k].entry # "searchEmails"
                           THEN searchCalls[k].originalBuildQuery
                           ELSE buildSearchQuery
    /\ UNCHANGED <<rangeVars, pkgVars, subVars, envVars, progressVars, callerVars, llmVars, startVars>>

\* the searches of a package scan and of a subscription scan, and
\* SEARCH_PACKAGE_EMAILS and SEARCH_EMAILS requests, in any interleaving
NextScanner ==
    \/ SearchTrackerEmails("searchPackageEmails", "scan")
    \/ SearchTrackerEmails("searchSubscriptionEmails", "scan")
    \/ SearchTrackerEmails("searchPackageEmails", "request")
    \/ HandleSearchEmails
    \/ \E k \in 1..Len(searchCalls), ok \in BOOLEAN : TokenSettles(k, ok)
    \/ \E k \in 1..Len(searchCalls), ok \in BOOLEAN : RequestSettles(k, ok)

SpecScanner == InitRanges /\ [][NextScanner]_vars

\* ------------------------------------------------------ the LLM extractor
\* a classification of a scan is in flight: a scan awaits each callLLM before
\* it goes on, and one scan runs per category
Classifying(by) ==
    \E k \in 1..Len(llmOps) :
        /\ llmOps[k].kind = "callLLM" /\ llmOps[k].by = by
        /\ llmOps[k].pc \in {"availability", "creating", "prompting"}

\* the number of sessions created when the last DESTROY_LLM_SESSION request
\* answered so far was answered; 0 when none was
LastAnswer(ops) ==
    IF \E k \in 1..Len(ops) : ops[k].kind = "destroy" /\ ops[k].answered
    THEN LET k == CHOOSE i \in 1..Len(ops) :
                     /\ ops[i].kind = "destroy" /\ ops[i].answered
                     /\ \A j \in 1..Len(ops) :
                           (ops[j].kind = "destroy" /\ ops[j].answered)
                           => ops[j].mark <= ops[i].mark
         IN  ops[k].mark
    ELSE 0

\* callLLM(prompt) up to the first await of getSession (initialize or
\* LanguageModel.availability()), from a scan's extraction or a CALL_LLM
\* request
CallLLM(by) ==
    /\ Len(llmOps) < MaxLlmOps
    /\ by # "request" => ~Classifying(by)
    /\ llmOps' = Append(llmOps, [kind |-> "callLLM", by |-> by, pc |-> "availability",
                                 session |-> 0, answered |-> FALSE,
                                 mark |-> LastAnswer(llmOps)])
    /\ UNCHANGED <<currentSession, created, destroyed, rangeVars, pkgVars, subVars,
                   envVars, progressVars, callerVars, scannerVars, startVars>>

\* getSession after await LanguageModel.availability(): when currentSession
\* is null LanguageModel.create is called and awaited, else the session held
\* is returned and prompted
AvailabilitySettles(k) ==
    /\ llmOps[k].kind = "callLLM" /\ llmOps[k].pc = "availability"
    /\ llmOps' = [llmOps EXCEPT
                     ![k].pc = IF ~llmAvailable THEN "failed"
                               ELSE IF currentSession = 0 THEN "creating"
                               ELSE "prompting",
                     ![k].session = IF llmAvailable THEN currentSession ELSE 0]
    /\ UNCHANGED <<currentSession, created, destroyed, rangeVars, pkgVars, subVars,
                   envVars, progressVars, callerVars, scannerVars, startVars>>

\* this.currentSession = await createPromise: the new session is assigned
\* and prompted; a failed creation is rethrown
CreateSettles(k, ok) ==
    /\ llmOps[k].kind = "callLLM" /\ llmOps[k].pc = "creating"
    /\ IF ok
       THEN /\ created' = created + 1
            /\ currentSession' = created + 1
            /\ llmOps' = [llmOps EXCEPT ![k].pc = "prompting", ![k].session = created + 1]
       ELSE /\ UNCHANGED <<created, currentSession>>
            /\ llmOps' = [llmOps EXCEPT ![k].pc = "failed"]
    /\ UNCHANGED <<destroyed, rangeVars, pkgVars, subVars,
                   envVars, progressVars, callerVars, scannerVars, startVars>>

\* session.prompt(prompt) settles and callLLM returns or throws
PromptSettles(k, ok) ==
    /\ llmOps[k].kind = "callLLM" /\ llmOps[k].pc = "prompting"
    /\ llmOps' = [llmOps EXCEPT ![k].pc = IF ok THEN "returned" ELSE "failed"]
    /\ UNCHANGED <<currentSession, created, destroyed, rangeVars, pkgVars, subVars,
                   envVars, progressVars, callerVars, scannerVars, startVars>>

\* handleMessage DESTROY_LLM_SESSION: destroySession() is raced against a
\* timer of five seconds; with no session held destroySession returns at
\* once and the request is answered, else currentSession.destroy() is awaited
HandleDestroyLlmSession ==
    /\ Len(llmOps) < MaxLlmOps
    /\ llmOps' = Append(llmOps,
                        [kind |-> "destroy", by |-> "request",
                         pc |-> IF currentSession = 0 THEN "returned" ELSE "destroying",
                         session |-> currentSession,
                         answered |-> (currentSession = 0), mark |-> created])
    /\ UNCHANGED <<currentSession, created, destroyed, rangeVars, pkgVars, subVars,
                   envVars, progressVars, callerVars, scannerVars, startVars>>

\* the timer of five seconds fires before destroy() has settled: the request
\* is answered with success
DestroyTimesOut(k) ==
    /\ llmOps[k].kind = "destroy" /\ llmOps[k].pc = "destroying"
    /\ ~llmOps[k].answered
    /\ llmOps' = [llmOps EXCEPT ![k].answered = TRUE, ![k].mark = created]
    /\ UNCHANGED <<currentSession, created, destroyed, rangeVars, pkgVars, subVars,
                   envVars, progressVars, callerVars, scannerVars, startVars>>

\* currentSession.destroy() resolves or throws: destroySession sets
\* currentSession to null in both cases, and the request is answered if the
\* timer has not answered it
DestroySettles(k, ok) ==
    /\ llmOps[k].kind = "destroy" /\ llmOps[k].pc = "destroying"
    /\ currentSession' = 0
    /\ destroyed' = destroyed \cup {llmOps[k].session}
    /\ llmOps' = [llmOps EXCEPT ![k].pc = IF ok THEN "returned" ELSE "failed",
                                ![k].answered = TRUE,
                                ![k].mark = IF llmOps[k].answered THEN @ ELSE created]
    /\ UNCHANGED <<created, rangeVars, pkgVars, subVars,
                   envVars, progressVars, callerVars, scannerVars, startVars>>

LlmOpIds == 1..Len(llmOps)

\* the classifications of a package scan and of a subscription scan, CALL_LLM
\* and DESTROY_LLM_SESSION requests, in any interleaving
NextLlm ==
    \/ CallLLM("package")
    \/ CallLLM("subscription")
    \/ CallLLM("request")
    \/ \E k \in LlmOpIds : AvailabilitySettles(k)
    \/ \E k \in LlmOpIds, ok \in BOOLEAN : CreateSettles(k, ok)
    \/ \E k \in LlmOpIds, ok \in BOOLEAN : PromptSettles(k, ok)
    \/ HandleDestroyLlmSession
    \/ \E k \in LlmOpIds : DestroyTimesOut(k)
    \/ \E k \in LlmOpIds, ok \in BOOLEAN : DestroySettles(k, ok)

SpecLlm == InitRanges /\ [][NextLlm]_vars

\* ------------------------------------------- the current-progress entries
MaxProgressRuns == 3

ScanTypes == {"package", "subscription"}

ProgressSteps == {"scanning", "complete", "error"}

\* the scans of a type that have not reported 'complete' or 'error'
Reporting(scanType) ==
    {r \in 1..Len(progressRuns) :
        progressRuns[r].scanType = scanType /\ progressRuns[r].pc = "running"}

\* PROCESS_PACKAGE_EMAILS / SCAN_SUBSCRIPTION_EMAILS accepted: no scan of the
\* type is in progress; the handler sets the scanning state and starts the
\* scan with a progressCallback that calls updateProgressState
StartReporting(scanType) ==
    /\ Len(progressRuns) < MaxProgressRuns
    /\ Reporting(scanType) = {}
    /\ progressRuns' = Append(progressRuns, [scanType |-> scanType, pc |-> "running"])
    /\ UNCHANGED <<currentProgress, removalTimers, rangeVars, pkgVars, subVars, envVars,
                   callerVars, scannerVars, llmVars, startVars>>

\* updateProgressState(scanType, progressData): the entry is stored under
\* the type's current-progress key; for 'complete' and 'error' a timer is set
\* that removes the key, and the scan's promise settles, which ends the scan
StoreCurrentProgress(r, step) ==
    /\ progressRuns[r].pc = "running"
    /\ LET scanType == progressRuns[r].scanType
       IN  /\ currentProgress' = [currentProgress EXCEPT
                                     ![scanType] = [present |-> TRUE, run |-> r, step |-> step]]
           /\ IF step \in {"complete", "error"}
              THEN /\ removalTimers' = removalTimers \cup {[key |-> scanType, by |-> r]}
                   /\ progressRuns' = [progressRuns EXCEPT ![r].pc = "ended"]
              ELSE UNCHANGED <<removalTimers, progressRuns>>
    /\ UNCHANGED <<rangeVars, pkgVars, subVars, envVars, callerVars, scannerVars, llmVars,
                   startVars>>

\* the timer's callback: chrome.storage.local.remove(currentProgressKey)
RemovalFires(t) ==
    /\ t \in removalTimers
    /\ removalTimers' = removalTimers \ {t}
    /\ currentProgress' = [currentProgress EXCEPT ![t.key] = NoProgress]
    /\ UNCHANGED <<progressRuns, rangeVars, pkgVars, subVars, envVars, callerVars, scannerVars,
                   llmVars, startVars>>

\* scans of both types reporting their progress, and the timers firing two
\* seconds after they were set
NextProgress ==
    \/ \E scanType \in ScanTypes : StartReporting(scanType)
    \/ \E r \in 1..Len(progressRuns), step \in ProgressSteps : StoreCurrentProgress(r, step)
    \/ \E t \in removalTimers : RemovalFires(t)

SpecProgress == InitRanges /\ [][NextProgress]_vars

\* =================================================================== claims
\* the <<start, end>> pairs of a list of ranges
Bounds(ranges) == [k \in 1..Len(ranges) |-> <<ranges[k].startDate, ranges[k].endDate>>]

IsWindow(o) == o.startDate # Null /\ o.startDate <= o.endDate

\* some calendar day lies both in the entry's requested bounds and in the window o
EntryOverlaps(scan, o) ==
    \E d \in Days : /\ scan.startDateRequested <= d /\ d <= scan.endDateRequested
                     /\ o.startDate <= d /\ d <= o.endDate

EntryContains(scan, o) ==
    scan.startDateRequested <= o.startDate /\ o.endDate <= scan.endDateRequested

IsSentinel(ranges) ==
    Len(ranges) = 1 /\ ranges[1].startDate = Null /\ ranges[1].endDate = Null

\* a step that reconciled the window options' against the stored history
Reconciled == scanHistory' = scanHistory /\ IsWindow(options')

\* C1: a requested window that no history entry overlaps (empty history
\* included) is returned as the one range [R], with R's own start and end.
C1_NoOverlapReturnsRequest ==
    [][(Reconciled /\ \A k \in 1..Len(scanHistory) : ~EntryOverlaps(scanHistory[k], options'))
        => Bounds(optimizedRanges') = <<<<options'.startDate, options'.endDate>>>>]_vars

C1_Witness ==
    /\ IsWindow(options) /\ Len(scanHistory) >= 1
    /\ \A k \in 1..Len(scanHistory) : ~EntryOverlaps(scanHistory[k], options)
    /\ Bounds(optimizedRanges) = <<<<options.startDate, options.endDate>>>>

\* C2: a requested window that lies inside the requested bounds of one
\* history entry yields the fully-covered sentinel, whatever else is stored.
C2_ContainedReturnsSentinel ==
    [][(Reconciled /\ \E k \in 1..Len(scanHistory) : EntryContains(scanHistory[k], options'))
        => IsSentinel(optimizedRanges')]_vars

C2_Witness ==
    /\ IsWindow(options) /\ Len(scanHistory) >= 2
    /\ \E k \in 1..Len(scanHistory) : EntryContains(scanHistory[k], options)
    /\ \E k \in 1..Len(scanHistory) : ~EntryContains(scanHistory[k], options)
    /\ IsSentinel(optimizedRanges)

\* C3: one history entry strictly inside the requested window yields exactly
\* the two ranges [rStart, eStart - 1 day] and [eEnd + 1 day, rEnd].
C3_GapsAroundOneEntry ==
    [][(/\ Reconciled /\ Len(scanHistory) = 1
        /\ options'.startDate < scanHistory[1].startDateRequested
        /\ scanHistory[1].startDateRequested <= scanHistory[1].endDateRequested
        /\ scanHistory[1].endDateRequested < options'.endDate)
        => Bounds(optimizedRanges') =
             << <<options'.startDate, scanHistory[1].startDateRequested - 1>>,
                <<scanHistory[1].endDateRequested + 1, options'.endDate>> >>]_vars

C5_StartWhileScanningRejected ==
    [][/\ packageScanningState.isScanning => Len(pkgRuns') = Len(pkgRuns)
       /\ pkgRejected' # pkgRejected =>
            /\ packageScanningState.isScanning /\ pkgRejected' = pkgRejected + 1
            /\ UNCHANGED <<pkgRuns, scanHistory, packages, packageScanningState, stored>>
       /\ subscriptionScanningState.isScanning => Len(subRuns') = Len(subRuns)
       /\ subRejected' # subRejected =>
            /\ subscriptionScanningState.isScanning /\ subRejected' = subRejected + 1
            /\ UNCHANGED <<subRuns, subScanHistory, subscriptions,
                           subscriptionScanningState, stored>>]_vars

C5_Witness ==
    /\ pkgRejected = 1 /\ packageScanningState.isScanning /\ Len(pkgRuns) = 1
    /\ subRejected = 1 /\ subscriptionScanningState.isScanning /\ Len(subRuns) = 1

\* C6: within one run the progress values handed to the callback never
\* decrease (the 'error' report aside), and 'complete' is reported with 100.
C6_ProgressMonotone ==
    [][/\ \A r \in 1..Len(pkgRuns) :
            /\ (pkgRuns[r].progress # Null /\ pkgRuns'[r].step # "error")
                 => pkgRuns'[r].progress >= pkgRuns[r].progress
            /\ pkgRuns'[r].step = "complete" => pkgRuns'[r].progress = 100
       /\ \A r \in 1..Len(subRuns) :
            /\ (subRuns[r].progress # Null /\ subRuns'[r].step # "error")
                 => subRuns'[r].progress >= subRuns[r].progress
            /\ subRuns'[r].step = "complete" => subRuns'[r].progress = 100]_vars

\* a run of processPackageEmails that has returned normally and been answered
Completed(run) == run.pc = "done" /\ run.response = "success"

Covered(window) ==
    IsSentinel(getOptimizedScanRanges(scanHistory, window.startDate, window.endDate))

\* C7: when a package scan over a window is run twice in a row (the mailbox
\* being the same), the second run persists no record and the history
\* records the window as covered after it.
C7_SecondRunIdempotent ==
    \A r \in 1..(Len(pkgRuns) - 1) :
        (/\ Completed(pkgRuns[r]) /\ Completed(pkgRuns[r + 1])
         /\ pkgRuns[r].options = pkgRuns[r + 1].options)
        => /\ pkgRuns[r + 1].allProcessedPackages = 0
           /\ Covered(pkgRuns[r + 1].options)

\* the month-overflow rule of the claim: the same date of the next month,
\* days past its end rolling over (2024-01-31 gives 2024-03-02)
OneMonthLater(d) == MakeDay(YearOf(d), MonthOf(d) + 1, DateOf(d))

\* C8: every subscription record's reminderDate is its billingDate one
\* calendar month later, and every calendar event carries the reminderDate
\* of the record of its message.
C8_ReminderDateLaw ==
    /\ \A k \in 1..Len(subscriptions) :
          subscriptions[k].reminderDate = OneMonthLater(subscriptions[k].billingDate)
    /\ \A e \in 1..Len(calendarEvents) :
          \E k \in 1..Len(subscriptions) :
             /\ subscriptions[k].emailId = calendarEvents[e].emailId
             /\ subscriptions[k].reminderDate = calendarEvents[e].date

\* C9: once a package scan over a window has completed with the mail search
\* returning no message id, a reconciliation of that window gives the
\* fully-covered sentinel.
C9_EmptyWindowCovered ==
    \A r \in 1..Len(pkgRuns) :
        (Completed(pkgRuns[r]) /\ pkgRuns[r].totalEmailsScanned = 0)
        => Covered(pkgRuns[r].options)

\* C10: a run that has processed all its ranges appends exactly one history
\* entry, carrying the caller's window; nothing else of a run appends one.
C10_OneEntryPerScan ==
    [][/\ \A r \in 1..Len(pkgRuns) :
            (pkgRuns[r].pc = "saving" /\ pkgRuns'[r].pc = "completing")
            => /\ Len(scanHistory') = Len(scanHistory) + 1
               /\ scanHistory'[Len(scanHistory')].startDateRequested
                     = pkgRuns[r].options.startDate
               /\ scanHistory'[Len(scanHistory')].endDateRequested
                     = pkgRuns[r].options.endDate
       /\ scanHistory' # scanHistory =>
            \E r \in 1..Len(pkgRuns) :
                pkgRuns[r].pc = "saving" /\ pkgRuns'[r].pc = "completing"]_vars

\* the history with the informational fields of the entries in alt changed
\* (another message count, other observed timestamps) and, when rev, the
\* scan instants in the opposite order; the requested bounds are the same
InfoVariant(history, alt, rev) ==
    [k \in 1..Len(history) |->
        [history[k] EXCEPT
            !.scanDate = IF rev THEN Len(history) + 1 - @ ELSE @,
            !.emailsScanned = IF k \in alt THEN @ + 1 ELSE @,
            !.earliestEmailTimestamp = IF k \in alt THEN 0 ELSE @,
            !.latestEmailTimestamp = IF k \in alt THEN MaxDay ELSE @]]

\* C11: for every request, a history whose entries have the same requested
\* bounds but other observed timestamps, message counts or scan instants
\* gives the same getOptimizedScanRanges result.
C11_CoverageUsesRequestedBounds ==
    \A alt \in SUBSET (1..Len(scanHistory)), rev \in BOOLEAN :
        getOptimizedScanRanges(InfoVariant(scanHistory, alt, rev),
                               options.startDate, options.endDate)
          = getOptimizedScanRanges(scanHistory, options.startDate, options.endDate)

C11_Witness ==
    /\ IsWindow(options) /\ Len(scanHistory) >= 2
    /\ Len(optimizedRanges) = 2
    /\ optimizedRanges = getOptimizedScanRanges(scanHistory, options.startDate, options.endDate)
    /\ \A k \in 1..Len(scanHistory) : EntryOverlaps(scanHistory[k], options)
    /\ InfoVariant(scanHistory, 1..Len(scanHistory), TRUE) # scanHistory

\* the runs of a category whose handler has not yet answered
Executing(runs) == {r \in 1..Len(runs) : runs[r].pc # "done"}

\* C12: at every moment at most one run per category is executing, whatever
\* the order of start requests, progress reports, the settling of
\* loadScanningStates and the startup cleanup.
C12_OneRunPerCategory ==
    /\ Cardinality(Executing(pkgRuns)) <= 1
    /\ Cardinality(Executing(subRuns)) <= 1

C12_Witness ==
    /\ loadPc.pc = "settled" /\ loadPc.result.present /\ loadPc.fresh
    /\ cleanupPc = "done"
    /\ Len(pkgRuns) = 2 /\ Executing(pkgRuns) = {2} /\ pkgRejected >= 1
    /\ Len(subRuns) = 2 /\ Executing(subRuns) = {2} /\ subRejected >= 1

\* C13: once the worker has started (loadScanningStates has settled and
\* cleanupOnStartup has sent its reset message) and before any scan is
\* asked for, both states are inactive in memory and in storage, whatever
\* was stored before.
C13_StartupClearsActive ==
    (/\ loadPc.pc = "settled" /\ cleanupPc = "done"
     /\ Len(pkgRuns) = 0 /\ Len(subRuns) = 0)
    => /\ ~packageScanningState.isScanning
       /\ ~subscriptionScanningState.isScanning
       /\ ~stored.packageScanningState.isScanning
       /\ ~stored.subscriptionScanningState.isScanning
       /\ \A c \in DOMAIN broadcasts : broadcasts[c].type = "CLEANUP_SCAN_STATES"

\* C20: every message sent about a scan type carries a state that had been
\* written to storage when the message was sent.
C20_WriteThenNotify ==
    \A c \in DOMAIN broadcasts : broadcasts[c].persisted

\* C14: whatever the fetch or the classification of a message gives, the run
\* goes on with the next message of the same range (later with the next
\* range) and never to the outer catch; a record is persisted only for the
\* message in hand, so none when its fetch or classification failed.
C14_ItemFailuresSkipped ==
    [][/\ \A r \in 1..Len(pkgRuns) :
            (pkgRuns[r].pc \in {"fetching", "classifying"} /\ pkgRuns'[r] # pkgRuns[r])
            => /\ \/ pkgRuns[r].pc = "fetching" /\ pkgRuns'[r].pc = "classifying"
                     /\ pkgRuns'[r].i = pkgRuns[r].i /\ packages' = packages
                  \/ pkgRuns'[r].pc = "emailLoop" /\ pkgRuns'[r].i = pkgRuns[r].i + 1
               /\ pkgRuns'[r].newEmailIds = pkgRuns[r].newEmailIds
               /\ pkgRuns'[r].optimizedRanges = pkgRuns[r].optimizedRanges
               /\ pkgRuns'[r].rangeIndex = pkgRuns[r].rangeIndex
               /\ packages' # packages =>
                    /\ pkgRuns[r].pc = "classifying"
                    /\ Len(packages') = Len(packages) + 1
                    /\ packages'[Len(packages')].emailId
                          = pkgRuns[r].newEmailIds[pkgRuns[r].i + 1]
       /\ \A r \in 1..Len(subRuns) :
            (subRuns[r].pc \in {"fetching", "classifying"} /\ subRuns'[r] # subRuns[r])
            => /\ \/ subRuns[r].pc = "fetching" /\ subRuns'[r].pc = "classifying"
                     /\ subRuns'[r].i = subRuns[r].i /\ subscriptions' = subscriptions
                  \/ subRuns'[r].pc = "emailLoop" /\ subRuns'[r].i = subRuns[r].i + 1
               /\ subRuns'[r].emailIds = subRuns[r].emailIds
               /\ subscriptions' # subscriptions =>
                    /\ subRuns[r].pc = "classifying"
                    /\ Len(subscriptions') = Len(subscriptions) + 1
                    /\ subscriptions'[Len(subscriptions')].emailId
                          = subRuns[r].emailIds[subRuns[r].i + 1]]_vars

\* a run none of whose two fetches succeeded (no email timestamp was
\* seen) has been answered with success, its history entry saved
C14_Witness ==
    \E r \in 1..Len(pkgRuns) :
       /\ Completed(pkgRuns[r])
       /\ pkgRuns[r].totalEmailsScanned = 2
       /\ pkgRuns[r].earliestEmailTimestamp = Null
       /\ pkgRuns[r].historySaved = 1
       /\ pkgRuns[r].allProcessedPackages = 0

C16_OneSubscriptionRecordPerEmail ==
    \A a, b \in 1..Len(subscriptions) :
       subscriptions[a].emailId = subscriptions[b].emailId => a = b

\* C17: for every emailId at most one calendar event has been created and at
\* most one calendar-event record exists, also after runs in which the event
\* creation or the saving of the record failed.
C17_OneCalendarEventPerEmail ==
    /\ \A a, b \in 1..Len(calendarEvents) :
          calendarEvents[a].emailId = calendarEvents[b].emailId => a = b
    /\ \A a, b \in 1..Len(calendarEventRecords) :
          calendarEventRecords[a].emailId = calendarEventRecords[b].emailId => a = b

\* C18: when getOptimizedScanRanges could not read the scan history or threw
\* in its body, it answers with exactly one range, the requested startDate
\* and endDate themselves: not the fully-scanned sentinel, not an empty list.
C18_DegradesToFullWindow ==
    options # NoOptions
    => /\ Len(optimizedRanges) = 1
       /\ optimizedRanges[1].startDate = options.startDate
       /\ optimizedRanges[1].endDate = options.endDate
       /\ optimizedRanges[1].startDate # Null

\* the history covers the requested window (a call that could read it would
\* answer with the sentinel) and the call whose read failed gave the window
C18_Witness ==
    /\ options # NoOptions
    /\ getOptimizedScanRanges(scanHistory, options.startDate, options.endDate)[1].startDate
          = Null
    /\ Len(optimizedRanges) = 1
    /\ optimizedRanges[1].reason = "No previous scans found"
    /\ optimizedRanges[1].startDate = options.startDate

FullyScanned(ranges) == Len(ranges) = 1 /\ ranges[1].startDate = Null

\* C19: a run leaves 'optimizing' either by returning at once, reporting
\* 'complete' with progress 100, having searched, fetched, classified and
\* saved nothing, or by entering the loop over its ranges; it returns at once
\* only when the scan history covers the requested window (the answer was
\* the sentinel), and it enters the loop with real ranges only, over a
\* covered window only with the whole window as the fallback range.
C19_SentinelShortCircuit ==
    [][\A r \in 1..Len(pkgRuns) :
         (pkgRuns[r].pc = "optimizing" /\ pkgRuns'[r].pc # "optimizing")
         => LET covered == FullyScanned(getOptimizedScanRanges(scanHistory,
                               pkgRuns[r].options.startDate, pkgRuns[r].options.endDate))
            IN  \/ /\ pkgRuns'[r].pc = "resolved"
                   /\ covered
                   /\ pkgRuns'[r].step = "complete" /\ pkgRuns'[r].progress = 100
                   /\ packageScanningState'.step = "complete"
                   /\ packageScanningState'.progress = 100
                   /\ pkgRuns'[r].searches = 0
                   /\ pkgRuns'[r].totalEmailsScanned = 0
                   /\ pkgRuns'[r].allProcessedPackages = 0
                   /\ pkgRuns'[r].earliestEmailTimestamp = Null
                   /\ UNCHANGED <<packages, scanHistory, dedupSeen>>
                \/ /\ pkgRuns'[r].pc = "rangeLoop"
                   /\ ~FullyScanned(pkgRuns'[r].optimizedRanges)
                   /\ Len(pkgRuns'[r].optimizedRanges) >= 1
                   /\ covered =>
                         /\ Len(pkgRuns'[r].optimizedRanges) = 1
                         /\ pkgRuns'[r].optimizedRanges[1].startDate
                               = pkgRuns[r].options.startDate
                         /\ pkgRuns'[r].optimizedRanges[1].endDate
                               = pkgRuns[r].options.endDate
                         /\ pkgRuns'[r].optimizedRanges[1].reason \in
                               {"No previous scans found",
                                "Error checking scan history, scanning full range"}
                   /\ \A k \in 1..Len(pkgRuns'[r].optimizedRanges) :
                         pkgRuns'[r].optimizedRanges[k].startDate # Null]_vars

\* a run over a window the history covers has returned at once, without any
\* search, and was answered with success; it appended no history entry
C19_Witness ==
    /\ \E r \in 1..Len(pkgRuns) :
          /\ Completed(pkgRuns[r])
          /\ pkgRuns[r].searches = 0
          /\ FullyScanned(getOptimizedScanRanges(scanHistory,
                 pkgRuns[r].options.startDate, pkgRuns[r].options.endDate))
    /\ Len(scanHistory) = 1

\* C21: while the language model is unavailable, a run that handed a message
\* to the model ends in 'error', not in 'complete'.
C21_ModelUnavailableFatal ==
    ~llmAvailable
    => \A r \in 1..Len(pkgRuns) :
          (pkgRuns[r].pc \in {"resolved", "rejected", "done"}
             /\ pkgRuns[r].earliestEmailTimestamp # Null)
          => pkgRuns[r].step = "error"

\* C22: a MARK_PACKAGE_PICKED_UP request whose packageId is the key of no
\* record is answered with success = false and the error 'Package not found',
\* and it leaves the packages store as it was.
C22_UnknownPickupNotFound ==
    [][(pickup' # pickup /\ ~\E k \in 1..Len(packages) : packages[k].id = pickup'.packageId)
       => /\ ~pickup'.success
          /\ pickup'.error = "Package not found"
          /\ packages' = packages]_vars

\* the request for a key no record has was answered while the store held
\* records, one of them marked before
C22_Witness ==
    /\ pickup.packageId = 0 /\ pickup.error = "Package not found"
    /\ Len(packages) >= 2
    /\ \E k \in 1..Len(packages) : packages[k].pickedUp

\* C23: once loadScanningStates has settled on stored states older than ten
\* minutes, a category is active in memory only while one of its runs is
\* executing, whatever was stored as active; so a start request is answered
\* 'already in progress' only because of a run that is executing.
C23_StaleStatusNotRestored ==
    [][(loadPc'.pc = "settled" /\ ~loadPc'.fresh)
       => /\ packageScanningState'.isScanning => Executing(pkgRuns') # {}
          /\ subscriptionScanningState'.isScanning => Executing(subRuns') # {}
          /\ pkgRejected' # pkgRejected => Executing(pkgRuns) # {}
          /\ subRejected' # subRejected => Executing(subRuns) # {}]_vars

\* the worker was restarted (no 'activate'), both stored states were active
\* and stale, and the first start request of each category was accepted
C23_Witness ==
    /\ loadPc.pc = "settled" /\ ~loadPc.fresh /\ cleanupPc = "none"
    /\ loadPc.result.present
    /\ loadPc.result.packageScanningState.isScanning
    /\ loadPc.result.subscriptionScanningState.isScanning
    /\ Len(pkgRuns) = 1 /\ pkgRejected = 0
    /\ Len(subRuns) = 1 /\ subRejected = 0

\* C24: when the creation of the calendar event of a subscription settles,
\* failed or not, the subscription records stay as saved (that of the
\* message in hand among them), a failed creation writes no calendar-event
\* record, and the run goes on with the next subscription of its list.
C24_CalendarFailureSkipped ==
    [][\A r \in 1..Len(subRuns) :
         (subRuns[r].pc = "creatingEvent" /\ subRuns'[r] # subRuns[r])
         => /\ subscriptions' = subscriptions
            /\ \E k \in 1..Len(subscriptions') :
                  subscriptions'[k].emailId
                     = subRuns[r].subscriptions[subRuns[r].j + 1].emailId
            /\ calendarEvents' = calendarEvents
                  => calendarEventRecords' = calendarEventRecords
            /\ subRuns'[r].pc = "eventLoop"
            /\ subRuns'[r].j = subRuns[r].j + 1
            /\ subRuns'[r].subscriptions = subRuns[r].subscriptions]_vars

\* a run saved two subscriptions; the event of the first could not be
\* created, the second got its event and its record, and the run was
\* answered with success
C24_Witness ==
    /\ Len(subscriptions) = 2
    /\ Len(calendarEvents) = 1 /\ Len(calendarEventRecords) = 1
    /\ calendarEvents[1].emailId = subscriptions[2].emailId
    /\ calendarEventRecords[1].emailId = subscriptions[2].emailId
    /\ \E r \in 1..Len(subRuns) : Completed(subRuns[r])

\* the ranges of a result that are real ranges (the sentinel is none)
Emitted(ranges) == {k \in 1..Len(ranges) : ranges[k].startDate # Null}

InRange(range, d) == range.startDate <= d /\ d <= range.endDate

\* day d lies in the requested bounds of some entry of the history
DayCovered(history, d) ==
    \E k \in 1..Len(history) :
        history[k].startDateRequested <= d /\ d <= history[k].endDateRequested

CoveredDays(history) == {d \in Days : DayCovered(history, d)}

\* C25: no day that lies in the requested bounds of a history entry is
\* contained in an emitted range: a gap before an entry ends the day before
\* the entry starts and the range after an entry starts the day after it ends.
C25_NoCoveredDayEmitted ==
    [][Reconciled
        => \A k \in Emitted(optimizedRanges'), d \in Days :
              InRange(optimizedRanges'[k], d) => ~DayCovered(scanHistory, d)]_vars

\* C26: every day of the requested window that no history entry covers lies
\* in exactly one emitted range, and the emitted ranges are ascending,
\* pairwise disjoint, inside the window, each with start <= end.
C26_NoUncoveredDaySkipped ==
    [][Reconciled
        => /\ \A d \in Days :
                (InRange(options', d) /\ ~DayCovered(scanHistory, d))
                => Cardinality({k \in Emitted(optimizedRanges') :
                                   InRange(optimizedRanges'[k], d)}) = 1
           /\ \A k \in Emitted(optimizedRanges') :
                /\ optimizedRanges'[k].startDate <= optimizedRanges'[k].endDate
                /\ options'.startDate <= optimizedRanges'[k].startDate
                /\ optimizedRanges'[k].endDate <= options'.endDate
           /\ \A j \in Emitted(optimizedRanges'), k \in Emitted(optimizedRanges') :
                j < k => optimizedRanges'[j].endDate < optimizedRanges'[k].startDate]_vars

C26_Witness ==
    /\ IsWindow(options) /\ Len(scanHistory) >= 1
    /\ optimizedRanges = getOptimizedScanRanges(scanHistory, options.startDate, options.endDate)
    /\ Cardinality(Emitted(optimizedRanges)) = 2
    /\ \E d \in Days : /\ InRange(options, d) /\ ~DayCovered(scanHistory, d)
                         /\ InRange(optimizedRanges[2], d)
    /\ \E d \in Days : InRange(options, d) /\ DayCovered(scanHistory, d)

\* the history left by saving scans over the windows ws, in that order
RECURSIVE HistoryOf(_)
HistoryOf(ws) ==
    IF Len(ws) = 0 THEN <<>>
    ELSE saveScanHistory(HistoryOf(SubSeq(ws, 1, Len(ws) - 1)),
                         ScanDataFor(ws[Len(ws)][1], ws[Len(ws)][2]))

DayWindows == {w \in Days \X Days : w[1] <= w[2]}

Histories == {HistoryOf(ws) : ws \in UNION {[1..n -> DayWindows] : n \in 0..MaxHist}}

\* C27: the result of getOptimizedScanRanges depends only on the set of
\* covered days: two histories that cover the same days give the same
\* result for every requested window.
C27_DependsOnCoveredDaysOnly ==
    IsWindow(options)
    => \A other \in Histories :
          CoveredDays(other) = CoveredDays(scanHistory)
          => getOptimizedScanRanges(other, options.startDate, options.endDate)
               = getOptimizedScanRanges(scanHistory, options.startDate, options.endDate)

\* a progress value is an integer between 0 and 100
IsPercent(p) == p \in 0..100

\* C28: every progress value a run reports, and every progress value held in
\* the scanning states in memory and in storage, is an integer in 0..100.
C28_ProgressInRange ==
    /\ \A r \in 1..Len(pkgRuns) : pkgRuns[r].progress # Null => IsPercent(pkgRuns[r].progress)
    /\ \A r \in 1..Len(subRuns) : subRuns[r].progress # Null => IsPercent(subRuns[r].progress)
    /\ IsPercent(packageScanningState.progress)
    /\ IsPercent(subscriptionScanningState.progress)
    /\ IsPercent(stored.packageScanningState.progress)
    /\ IsPercent(stored.subscriptionScanningState.progress)

TerminalSteps == {"complete", "error"}

\* C29: every accepted start request ends: the run reaches its end having
\* reported a terminal step ('complete' or 'error'), isScanning of its
\* category is then false, the requester is answered once, and a run that
\* has ended is not taken up again.
C29_AcceptedStartTerminates ==
    /\ \A r \in 1..MaxSubScans :
          (r <= Len(subRuns)) ~> (r <= Len(subRuns) /\ subRuns[r].pc = "done")
    /\ \A r \in 1..MaxPkgScans :
          (r <= Len(pkgRuns)) ~> (r <= Len(pkgRuns) /\ pkgRuns[r].pc = "done")
    /\ [][/\ \A r \in 1..Len(subRuns) :
              /\ (subRuns[r].pc # "done" /\ subRuns'[r].pc = "done")
                    => /\ ~subscriptionScanningState'.isScanning
                       /\ subRuns[r].response = "none"
                       /\ subRuns'[r].response \in {"success", "failure"}
                       /\ subRuns'[r].step \in TerminalSteps
              /\ subRuns[r].pc = "done" => subRuns'[r] = subRuns[r]
              /\ subRuns[r].step \in TerminalSteps => subRuns'[r].step = subRuns[r].step
          /\ \A r \in 1..Len(pkgRuns) :
              /\ (pkgRuns[r].pc # "done" /\ pkgRuns'[r].pc = "done")
                    => /\ ~packageScanningState'.isScanning
                       /\ pkgRuns[r].response = "none"
                       /\ pkgRuns'[r].response \in {"success", "failure"}
                       /\ \/ pkgRuns'[r].step \in TerminalSteps
                          \/ broadcasts'.package.step \in TerminalSteps
              /\ pkgRuns[r].pc = "done" => pkgRuns'[r] = pkgRuns[r]
              /\ pkgRuns[r].step \in TerminalSteps => pkgRuns'[r].step = pkgRuns[r].step]_vars

\* C30: every search a package scan issues is sent with the package query
\* and every search a subscription scan issues with the subscription query,
\* however the searches of the two scans and of search requests interleave.
C30_SearchUsesOwnQuery ==
    \A k \in 1..Len(searchCalls) :
        (searchCalls[k].by = "scan" /\ searchCalls[k].pc \in {"request", "returned"})
        => searchCalls[k].query = Installs[searchCalls[k].entry]

\* marking any record of the store sets its flag and nothing else, takes the
\* record out of getUnpickedPackages, and marking it again changes nothing
PickupLaw(store) ==
    \A k \in 1..Len(store) :
        LET marked == markPackageAsPickedUp(store, store[k].id, "ok")
        IN  /\ marked.success
            /\ marked.store = [store EXCEPT ![k].pickedUp = TRUE]
            /\ \A j \in 1..Len(getUnpickedPackages(marked.store)) :
                   getUnpickedPackages(marked.store)[j].id # store[k].id
            /\ markPackageAsPickedUp(marked.store, store[k].id, "ok").store = marked.store

\* C31: markPackageAsPickedUp on an existing record sets its pickedUp flag,
\* changes no other field and no other record, removes it from
\* getUnpickedPackages and is idempotent; a step of a scan changes no flag of
\* an existing record, and no step removes or rewrites a record.
C31_PickupOnlyMutation ==
    [][/\ PickupLaw(packages) /\ PickupLaw(packages')
       /\ Len(packages') >= Len(packages)
       /\ \A k \in 1..Len(packages) :
             /\ packages'[k] = [packages[k] EXCEPT !.pickedUp = packages'[k].pickedUp]
             /\ packages'[k].pickedUp # packages[k].pickedUp
                  => /\ packages'[k].pickedUp
                     /\ pickup'.success /\ pickup'.packageId = packages[k].id
                     /\ pkgRuns' = pkgRuns
                     /\ \A j \in 1..Len(packages) : j # k => packages'[j] = packages[j]
                     /\ Len(packages') = Len(packages)]_vars

C31_Witness ==
    /\ Len(packages) >= 2
    /\ packages[1].pickedUp /\ ~packages[2].pickedUp
    /\ pickup.success /\ pickup.packageId = packages[1].id
    /\ Len(getUnpickedPackages(packages)) = Len(packages) - 1
    /\ \E r \in 1..Len(pkgRuns) : pkgRuns[r].pc = "done"

\* C32: when a DESTROY_LLM_SESSION request is answered the extractor holds
\* no session, and a callLLM that starts after the answer prompts a session
\* created after it, whether destroy() resolved, threw or was still pending
\* when the timer fired.
C32_DestroyGivesCleanContext ==
    [][\A k \in 1..Len(llmOps') :
          /\ (/\ llmOps'[k].kind = "destroy" /\ llmOps'[k].answered
               /\ (k > Len(llmOps) \/ ~llmOps[k].answered))
             => currentSession' = 0
          /\ (llmOps'[k].kind = "callLLM" /\ llmOps'[k].pc \in {"prompting", "returned"})
             => llmOps'[k].session > llmOps'[k].mark]_vars

\* C38: at most one session that was created and not destroyed exists, and
\* getSession never assigns a new session over one that is held and has not
\* been destroyed.
C38_AtMostOneLiveSession ==
    [][/\ Cardinality((1..created') \ destroyed') <= 1
       /\ (currentSession' # currentSession /\ currentSession' # 0)
            => (currentSession = 0 \/ currentSession \in destroyed)]_vars

\* C33: the scan history only grows, every stored entry staying as it is,
\* and a window for which getOptimizedScanRanges gives the fully-covered
\* sentinel keeps giving it after every later operation.
C33_CoverageNeverShrinks ==
    [][/\ Len(scanHistory') >= Len(scanHistory)
       /\ SubSeq(scanHistory', 1, Len(scanHistory)) = scanHistory
       /\ \A w \in DayWindows :
             IsSentinel(getOptimizedScanRanges(scanHistory, w[1], w[2]))
             => IsSentinel(getOptimizedScanRanges(scanHistory', w[1], w[2]))]_vars

C33_Witness ==
    /\ IsWindow(options) /\ Len(scanHistory) = 2
    /\ optimizedRanges = getOptimizedScanRanges(scanHistory, options.startDate, options.endDate)
    /\ IsSentinel(optimizedRanges)
    /\ IsSentinel(getOptimizedScanRanges(SubSeq(scanHistory, 1, 1),
                                         options.startDate, options.endDate))
    /\ ~EntryContains(scanHistory[2], options)

\* C34: a category is active in memory only while one of its runs is
\* executing in this worker, and a start request is answered 'already in
\* progress' only while a run of its category is executing.
C34_ActiveMeansRunning ==
    [][/\ packageScanningState'.isScanning => Executing(pkgRuns') # {}
       /\ subscriptionScanningState'.isScanning => Executing(subRuns') # {}
       /\ pkgRejected' # pkgRejected => Executing(pkgRuns) # {}
       /\ subRejected' # subRejected => Executing(subRuns) # {}]_vars

\* C35: a message whose fetch or classification failed in a completed
\* package scan of a window is passed to fetchEmail again by every later
\* completed scan that is asked for the same window.
C35_FailedItemRetried ==
    \A r1 \in 1..Len(pkgRuns), r2 \in 1..Len(pkgRuns) :
        (/\ r1 < r2 /\ Completed(pkgRuns[r1]) /\ Completed(pkgRuns[r2])
         /\ pkgRuns[r1].options = pkgRuns[r2].options)
        => pkgRuns[r1].failedIds \subseteq pkgRuns[r2].fetchedIds

C37_BaseBuilderRestored ==
    (\A k \in 1..Len(searchCalls) :
        searchCalls[k].entry # "searchEmails" => searchCalls[k].pc \in {"returned", "failed"})
    => /\ buildSearchQuery = "plain"
       /\ \A k \in 1..Len(searchCalls) :
              (/\ searchCalls[k].entry = "searchEmails"
               /\ searchCalls[k].pc \in {"request", "returned"}
               /\ \A j \in 1..Len(searchCalls) : j # k => j < k)
              => searchCalls[k].query = "plain"

\* C39: a removal timer deletes a current-progress entry only if the scan
\* that set the timer wrote it; the entry written by a newer scan of the same
\* type stays.
C39_RemovalSparesNewerEntry ==
    [][\A t \in removalTimers :
          (/\ t \notin removalTimers'
           /\ currentProgress[t.key].present
           /\ ~currentProgress'[t.key].present)
          => currentProgress[t.key].run = t.by]_vars

\* the days of the windows a scan can be asked for
WindowDays == UNION {w.startDate..w.endDate : w \in Windows}

\* C40: every day that lies in the requested bounds of a scan-history entry
\* lay inside the `after:` (inclusive) and `before:` (exclusive) bounds of a
\* search query that some package scan issued.
C40_CoveredDaysWereSearched ==
    \A d \in WindowDays :
        DayCovered(scanHistory, d)
        => \E r \in 1..Len(pkgRuns) : d \in pkgRuns[r].searchedDays

====
